---- MODULE Spec2Model ----
(***************************************************************************)
(* A model of the RAG chatbot core: the chunker (backend/rag/chunker.py),  *)
(* the retriever (backend/rag/retriever.py), the FAISS embedding index     *)
(* (backend/rag/embeddings.py), the query classifier                       *)
(* (backend/router/classifier.py), the output evaluator                    *)
(* (backend/evaluator/evaluator.py), the /query and /query/stream handlers *)
(* and the conversation endpoints (backend/main.py, backend/db/crud.py),   *)
(* the streamed generation (backend/llm/groq_client.py) and concurrent     *)
(* calls of the core functions and of the handlers.                        *)
(*                                                                         *)
(* Strings are sequences of one-character strings, so that len, strip,     *)
(* split, slicing and substring search are computed as Python computes     *)
(* them.                                                                   *)
(***************************************************************************)
EXTENDS Integers, Sequences, FiniteSets, TLC

VARIABLES
    text,        \* chunker: the text handed to chunk_text
    chunk_call,  \* chunker: the last chunk_text call and what it returned
    db,          \* retriever: the document_chunks table, as each stored chunk's
                 \*            cosine distance to the query's embedding
    retr_call,   \* retriever: the last retrieve call and what it returned
    self_index,  \* EmbeddingIndex.index: None, or the FAISS index's vectors
    self_chunks, \* EmbeddingIndex.chunks
    disk,        \* the index directory: index.faiss and chunks_meta.json
    completed,   \* whether a build_index or load call has completed successfully
    outcome,     \* how the last build_index, save or load call ended
    search_call, \* the last EmbeddingIndex.search call and what it returned
    query,       \* classifier: the query handed to classify_query
    class_call,  \* classifier: the last classify_query call and what it returned
    eval_answer, \* evaluator: the answer handed to evaluate_response
    retrieved,   \* evaluator: the chunk records the retriever returned
    eval_call,   \* evaluator: the last evaluate_response call and its flags
    conversations, \* the conversations table, in creation order
    messages,    \* the messages table, in created_at order
    tasks,       \* each request to /query or /query/stream: where its handler
                 \*            stands and the handler's local variables
    callers,     \* each concurrent caller of the core functions: the call it
                 \*            makes, where it stands and its local variables
    api,         \* the chat completion API's stream: its chunks, and whether
                 \*            the call or the stream fails
    gen,         \* a run of generate_stream: where the generator stands, its
                 \*            local variables and the events it yielded
    sse,         \* query_stream's event_generator: where it stands, its
                 \*            full_answer and the events it sent
    context_call, \* retriever: the chunks handed to build_context and what
                 \*            it returned
    pages_call,  \* chunker: the pages handed to chunk_pages and what it
                 \*            returned
    conv_call    \* the last call of a conversation endpoint and its reply

chunkVars == <<text, chunk_call>>
retrVars == <<db, retr_call>>
indexVars == <<self_index, self_chunks, disk, completed, outcome, search_call>>
classVars == <<query, class_call>>
evalVars == <<eval_answer, retrieved, eval_call>>
queryVars == <<conversations, messages, tasks>>
concVars == <<callers>>
streamVars == <<api, gen, sse>>
pureVars == <<context_call, pages_call>>
convVars == <<conv_call>>
vars == <<text, chunk_call, db, retr_call, self_index, self_chunks, disk, completed, outcome,
          search_call, query, class_call, eval_answer, retrieved, eval_call,
          conversations, messages, tasks, callers, api, gen, sse, context_call,
          pages_call, conv_call>>

----------------------------------------------------------------------------
(* Python string primitives *)

\* str.isspace() characters, as used by str.strip(), str.split() and \s
WS == {" ", "\n", "\t"}

Max(a, b) == IF a >= b THEN a ELSE b
Min(a, b) == IF a <= b THEN a ELSE b

RECURSIVE lstrip(_)
lstrip(s) == IF s # <<>> /\ Head(s) \in WS THEN lstrip(Tail(s)) ELSE s

RECURSIVE rstrip(_)
rstrip(s) ==
    IF s # <<>> /\ s[Len(s)] \in WS THEN rstrip(SubSeq(s, 1, Len(s) - 1)) ELSE s

\* str.strip()
strip(s) == rstrip(lstrip(s))

\* s[-n:] for n >= 0.  Python reads -0 as 0, so s[-0:] is the whole string.
NegSlice(s, n) ==
    IF n = 0 THEN s ELSE SubSeq(s, Max(1, Len(s) - n + 1), Len(s))

\* text.split("\n\n"): cut at each non-overlapping "\n\n", left to right,
\* keeping empty pieces.
RECURSIVE SplitParaFrom(_, _, _)
SplitParaFrom(s, i, start) ==
    IF i > Len(s) THEN <<SubSeq(s, start, Len(s))>>
    ELSE IF i < Len(s) /\ s[i] = "\n" /\ s[i + 1] = "\n"
         THEN <<SubSeq(s, start, i - 1)>> \o SplitParaFrom(s, i + 2, i + 2)
         ELSE SplitParaFrom(s, i + 1, start)

SplitParagraphs(s) == SplitParaFrom(s, 1, 1)

\* the end of the whitespace run that starts at i
RECURSIVE WsRunEnd(_, _)
WsRunEnd(s, i) ==
    IF i < Len(s) /\ s[i + 1] \in WS THEN WsRunEnd(s, i + 1) ELSE i

SentenceEnd == {".", "!", "?"}

\* re.split(r'(?<=[.!?])\s+', text): cut at each whitespace run that directly
\* follows '.', '!' or '?'.
RECURSIVE SplitSentFrom(_, _, _)
SplitSentFrom(s, i, start) ==
    IF i > Len(s) THEN <<SubSeq(s, start, Len(s))>>
    ELSE IF i > 1 /\ s[i - 1] \in SentenceEnd /\ s[i] \in WS
         THEN LET j == WsRunEnd(s, i)
              IN  <<SubSeq(s, start, i - 1)>> \o SplitSentFrom(s, j + 1, j + 1)
         ELSE SplitSentFrom(s, i + 1, start)

SplitSentences(s) == SplitSentFrom(s, 1, 1)

\* text.split(): the maximal runs of non-whitespace characters.
RECURSIVE SplitWordsFrom(_, _, _)
SplitWordsFrom(s, i, start) ==
    IF i > Len(s)
    THEN IF start <= Len(s) THEN <<SubSeq(s, start, Len(s))>> ELSE <<>>
    ELSE IF s[i] \in WS
         THEN (IF start < i THEN <<SubSeq(s, start, i - 1)>> ELSE <<>>)
              \o SplitWordsFrom(s, i + 1, i + 1)
         ELSE SplitWordsFrom(s, i + 1, start)

SplitWords(s) == SplitWordsFrom(s, 1, 1)

----------------------------------------------------------------------------
(* backend/rag/chunker.py *)

\* overlap_text = current_chunk[-chunk_overlap:]
\*                if len(current_chunk) > chunk_overlap else current_chunk
OverlapText(current_chunk, chunk_overlap) ==
    IF Len(current_chunk) > chunk_overlap
    THEN NegSlice(current_chunk, chunk_overlap)
    ELSE current_chunk

\* What one flush did: the buffer that was flushed, the unit that did not fit
\* and the buffer the loop goes on with.
Flush(level, current_chunk, unit, seeded) ==
    [level |-> level, flushed |-> current_chunk, unit |-> unit, seeded |-> seeded]

\* chunks[:-1]
AllButLast(seq) == IF seq = <<>> THEN <<>> ELSE SubSeq(seq, 1, Len(seq) - 1)

\* A slip at the end of each loop: the buffer left over is not appended.
FinalFlushMissing(chunks, current_chunk) == chunks

\* The end of each loop: if current_chunk.strip(): chunks.append(current_chunk.strip())
FinalFlush(chunks, current_chunk) ==
    IF strip(current_chunk) # <<>> THEN Append(chunks, strip(current_chunk)) ELSE chunks

\* _split_on_words: the loop over words from word i on.
RECURSIVE WordLoop(_, _, _, _, _, _, _)
WordLoop(words, i, chunk_size, chunk_overlap, chunks, current_chunk, flushes) ==
    IF i > Len(words)
    THEN [chunks |-> FinalFlush(chunks, current_chunk), flushes |-> flushes]
    ELSE LET word == words[i] IN
         IF Len(current_chunk) + Len(word) + 1 > chunk_size
         THEN IF current_chunk # <<>>
              THEN LET seeded == OverlapText(current_chunk, chunk_overlap)
                                     \o <<" ">> \o word
                   IN  WordLoop(words, i + 1, chunk_size, chunk_overlap,
                                Append(chunks, strip(current_chunk)), seeded,
                                Append(flushes, Flush("word", current_chunk, word, seeded)))
              ELSE WordLoop(words, i + 1, chunk_size, chunk_overlap,
                            chunks, word, flushes)
         ELSE WordLoop(words, i + 1, chunk_size, chunk_overlap, chunks,
                       strip(current_chunk \o <<" ">> \o word), flushes)

split_on_words(t, chunk_size, chunk_overlap) ==
    WordLoop(SplitWords(t), 1, chunk_size, chunk_overlap, <<>>, <<>>, <<>>)

\* _split_on_sentences: the loop over sentences from sentence i on.
RECURSIVE SentenceLoop(_, _, _, _, _, _, _)
SentenceLoop(sentences, i, chunk_size, chunk_overlap, chunks, current_chunk, flushes) ==
    IF i > Len(sentences)
    THEN [chunks |-> FinalFlush(chunks, current_chunk), flushes |-> flushes]
    ELSE LET sentence == sentences[i] IN
         IF Len(current_chunk) + Len(sentence) + 1 > chunk_size
         THEN IF current_chunk # <<>>
              THEN LET seeded == OverlapText(current_chunk, chunk_overlap)
                                     \o <<" ">> \o sentence
                   IN  SentenceLoop(sentences, i + 1, chunk_size, chunk_overlap,
                                    Append(chunks, strip(current_chunk)), seeded,
                                    Append(flushes,
                                           Flush("sentence", current_chunk, sentence, seeded)))
              ELSE LET w == split_on_words(sentence, chunk_size, chunk_overlap)
                   IN  SentenceLoop(sentences, i + 1, chunk_size, chunk_overlap,
                                    chunks \o AllButLast(w.chunks),
                                    IF w.chunks # <<>> THEN w.chunks[Len(w.chunks)] ELSE <<>>,
                                    flushes \o w.flushes)
         ELSE SentenceLoop(sentences, i + 1, chunk_size, chunk_overlap, chunks,
                           strip(current_chunk \o <<" ">> \o sentence), flushes)

split_on_sentences(t, chunk_size, chunk_overlap) ==
    SentenceLoop(SplitSentences(t), 1, chunk_size, chunk_overlap, <<>>, <<>>, <<>>)

\* chunk_text: the loop over paragraphs from paragraph i on.
RECURSIVE ParagraphLoop(_, _, _, _, _, _, _)
ParagraphLoop(paragraphs, i, chunk_size, chunk_overlap, chunks, current_chunk, flushes) ==
    IF i > Len(paragraphs)
    THEN [chunks |-> FinalFlush(chunks, current_chunk), flushes |-> flushes]
    ELSE LET para == strip(paragraphs[i]) IN
         IF para = <<>>
         THEN ParagraphLoop(paragraphs, i + 1, chunk_size, chunk_overlap,
                            chunks, current_chunk, flushes)
         ELSE IF Len(current_chunk) + Len(para) + 2 > chunk_size
         THEN IF current_chunk # <<>>
              THEN LET seeded == OverlapText(current_chunk, chunk_overlap)
                                     \o <<" ">> \o para
                   IN  ParagraphLoop(paragraphs, i + 1, chunk_size, chunk_overlap,
                                     Append(chunks, strip(current_chunk)), seeded,
                                     Append(flushes,
                                            Flush("paragraph", current_chunk, para, seeded)))
              ELSE LET s == split_on_sentences(para, chunk_size, chunk_overlap)
                   IN  ParagraphLoop(paragraphs, i + 1, chunk_size, chunk_overlap,
                                     chunks \o AllButLast(s.chunks),
                                     IF s.chunks # <<>> THEN s.chunks[Len(s.chunks)] ELSE <<>>,
                                     flushes \o s.flushes)
         ELSE ParagraphLoop(paragraphs, i + 1, chunk_size, chunk_overlap, chunks,
                            strip(current_chunk \o <<"\n", "\n">> \o para), flushes)

\* A slip in chunk_text's first test: len(text) < chunk_size, so that a text of
\* exactly chunk_size characters is split (and stripped).
chunk_text_run_strict(t, chunk_size, chunk_overlap) ==
    IF Len(t) < chunk_size
    THEN [chunks |-> <<t>>, flushes |-> <<>>]
    ELSE ParagraphLoop(SplitParagraphs(t), 1, chunk_size, chunk_overlap, <<>>, <<>>, <<>>)

\* chunk_text, with the flushes it made on the way
chunk_text_run(t, chunk_size, chunk_overlap) ==
    IF Len(t) <= chunk_size
    THEN [chunks |-> <<t>>, flushes |-> <<>>]
    ELSE ParagraphLoop(SplitParagraphs(t), 1, chunk_size, chunk_overlap, <<>>, <<>>, <<>>)

chunk_text(t, chunk_size, chunk_overlap) ==
    chunk_text_run(t, chunk_size, chunk_overlap).chunks

\* A slip in the inner loop: `chunk_id += 1` is missing.
RECURSIVE PageChunksSameId(_, _, _, _)
PageChunksSameId(page, text_chunks, j, chunk_id) ==
    IF j > Len(text_chunks) THEN <<>>
    ELSE <<[text |-> text_chunks[j], document |-> page.document,
            page |-> page.page, chunk_id |-> chunk_id]>>
         \o PageChunksSameId(page, text_chunks, j + 1, chunk_id)

\* chunk_pages: the loop over the chunks of one page, then over the pages
RECURSIVE PageChunks(_, _, _, _)
PageChunks(page, text_chunks, j, chunk_id) ==
    IF j > Len(text_chunks) THEN <<>>
    ELSE <<[text |-> text_chunks[j], document |-> page.document,
            page |-> page.page, chunk_id |-> chunk_id]>>
         \o PageChunks(page, text_chunks, j + 1, chunk_id + 1)

RECURSIVE PagesLoop(_, _, _, _, _)
PagesLoop(pages, i, chunk_size, chunk_overlap, all_chunks) ==
    IF i > Len(pages) THEN all_chunks
    ELSE PagesLoop(pages, i + 1, chunk_size, chunk_overlap,
                   all_chunks \o PageChunks(pages[i],
                                            chunk_text(pages[i].text, chunk_size, chunk_overlap),
                                            1, Len(all_chunks)))

chunk_pages(pages, chunk_size, chunk_overlap) ==
    PagesLoop(pages, 1, chunk_size, chunk_overlap, <<>>)

----------------------------------------------------------------------------
(* backend/rag/retriever.py *)

\* Similarities, distances and thresholds are fixed-point numbers in units of
\* 0.00001: One stands for 1.0.
One == 100000

\* backend/config.py
TOP_K == 5
SIMILARITY_THRESHOLD == 30000

\* An argument left at its default None, and an argument that was passed
None == [given |-> FALSE, val |-> 0]
Arg(v) == [given |-> TRUE, val |-> v]

\* Python's `x or default`: None and 0 are both falsy.
PyOr(x, default) == IF ~x.given \/ x.val = 0 THEN default ELSE x.val

\* round(similarity, 4): to the nearest multiple of 0.0001.  A model value that
\* lies exactly half-way goes to the even neighbour, as Python's round does.
Round4(x) ==
    LET q == x \div 10
        r == x % 10
    IN  IF r < 5 THEN 10 * q
        ELSE IF r > 5 THEN 10 * (q + 1)
        ELSE IF q % 2 = 0 THEN 10 * q ELSE 10 * (q + 1)

\* A slip in order_by: farthest first.
OrderedBeforeDescending(d1, d2) == d1 >= d2

\* .order_by(cosine_distance): a row of distance d1 may precede one of distance d2
OrderedBefore(d1, d2) == d1 <= d2

\* The sequences of k distinct chunk indices of table t
InjectiveSeqs(t, k) ==
    {r \in [1..k -> 1..Len(t)] : \A i, j \in 1..k : i # j => r[i] # r[j]}

\* select ... order_by(cosine_distance).limit(top_k): the results the database may
\* give; rows of equal distance come in any order.
NearestRows(t, top_k) ==
    LET k == Min(top_k, Len(t))
    IN  {r \in InjectiveSeqs(t, k) :
            /\ \A i \in 1..k : \A j \in 1..k : i < j => OrderedBefore(t[r[i]], t[r[j]])
            /\ \A i \in 1..k : \A c \in 1..Len(t) :
                   (\A j \in 1..k : r[j] # c) => OrderedBefore(t[r[i]], t[c])}

\* similarity = 1.0 - float(dist)
Similarity(dist) == One - dist

\* retrieve_async: the loop over the rows from row i on
RECURSIVE RowsLoop(_, _, _, _, _)
RowsLoop(t, rows, i, threshold, relevant_chunks) ==
    IF i > Len(rows) THEN relevant_chunks
    ELSE LET similarity == Similarity(t[rows[i]])
         IN  IF similarity >= threshold
             THEN RowsLoop(t, rows, i + 1, threshold,
                           Append(relevant_chunks,
                                  [chunk |-> rows[i],
                                   relevance_score |-> Round4(similarity)]))
             ELSE RowsLoop(t, rows, i + 1, threshold, relevant_chunks)

\* retrieve_async(query, top_k, threshold), given the rows the database returned
retrieve_async(t, rows, threshold) ==
    RowsLoop(t, rows, 1, PyOr(threshold, SIMILARITY_THRESHOLD), <<>>)

\* str(n) of a natural number
DigitChars == <<"0", "1", "2", "3", "4", "5", "6", "7", "8", "9">>

RECURSIVE str(_)
str(n) == IF n < 10 THEN <<DigitChars[n + 1]>> ELSE str(n \div 10) \o <<DigitChars[(n % 10) + 1]>>

\* sep.join(parts)
RECURSIVE Join(_, _)
Join(sep, parts) ==
    IF parts = <<>> THEN <<>>
    ELSE IF Len(parts) = 1 THEN parts[1]
    ELSE parts[1] \o sep \o Join(sep, Tail(parts))

NO_DOCUMENTATION ==
    <<"N", "o", " ", "r", "e", "l", "e", "v", "a", "n", "t", " ", "d", "o", "c", "u", "m",
      "e", "n", "t", "a", "t", "i", "o", "n", " ", "f", "o", "u", "n", "d", " ", "f", "o",
      "r", " ", "t", "h", "i", "s", " ", "q", "u", "e", "r", "y", ".">>

\* f"[Source: {chunk['document']}, Page {chunk['page']}]"
Source(chunk) ==
    <<"[", "S", "o", "u", "r", "c", "e", ":", " ">> \o chunk.document
        \o <<",", " ", "P", "a", "g", "e", " ">> \o str(chunk.page) \o <<"]">>

\* f"--- Context {i} {source} ---\n{chunk['text']}"
ContextPart(i, chunk) ==
    <<"-", "-", "-", " ", "C", "o", "n", "t", "e", "x", "t", " ">> \o str(i) \o <<" ">>
        \o Source(chunk) \o <<" ", "-", "-", "-", "\n">> \o chunk.text

\* build_context: the loop over enumerate(chunks, 1)
RECURSIVE ContextLoop(_, _, _)
ContextLoop(cs, i, context_parts) ==
    IF i > Len(cs) THEN context_parts
    ELSE ContextLoop(cs, i + 1, Append(context_parts, ContextPart(i, cs[i])))

\* A slip in the join: "\n".join(context_parts).
build_context_one_newline(cs) ==
    IF cs = <<>> THEN NO_DOCUMENTATION
    ELSE Join(<<"\n">>, ContextLoop(cs, 1, <<>>))

\* build_context(chunks)
build_context(cs) ==
    IF cs = <<>> THEN NO_DOCUMENTATION
    ELSE Join(<<"\n", "\n">>, ContextLoop(cs, 1, <<>>))

----------------------------------------------------------------------------
(* backend/rag/embeddings.py *)

\* self.index = None
NoIndex == [built |-> FALSE, vectors |-> <<>>]

\* faiss.IndexFlatIP holding the given vectors, in insertion order
FlatIP(vectors) == [built |-> TRUE, vectors |-> vectors]

\* A file of the index directory: absent, unreadable, or holding data
Absent == [kind |-> "absent", data |-> <<>>]
Malformed == [kind |-> "malformed", data |-> <<>>]
File(data) == [kind |-> "ok", data |-> data]

\* The chunk records the index is built from
ChunkIds == {"c1", "c2"}

\* model.encode(texts, normalize_embeddings=True): one vector per chunk, here
\* named after the chunk it embeds
Encode(cs) == [i \in 1..Len(cs) |-> cs[i]]

\* The inner product of the query's embedding with a chunk's vector
InnerProduct(vector) == IF vector = "c1" THEN 50000 ELSE 90000

\* The positions of the index's vectors, best score first, ties by position
RECURSIVE Ranked(_, _)
Ranked(vectors, left) ==
    IF left = {} THEN <<>>
    ELSE LET best == CHOOSE i \in left :
                        \A j \in left :
                            \/ InnerProduct(vectors[i]) > InnerProduct(vectors[j])
                            \/ /\ InnerProduct(vectors[i]) = InnerProduct(vectors[j])
                               /\ i <= j
         IN  <<best>> \o Ranked(vectors, left \ {best})

\* self.index.search(query_embedding, top_k): top_k (score, idx) pairs, idx
\* counted from 0, padded with idx = -1 when the index holds fewer vectors
FaissSearch(ix, top_k) ==
    LET order == Ranked(ix.vectors, 1..Len(ix.vectors))
    IN  [n \in 1..top_k |->
            IF n <= Len(order)
            THEN [score |-> InnerProduct(ix.vectors[order[n]]), idx |-> order[n] - 1]
            ELSE [score |-> 0 - One, idx |-> 0 - 1]]

\* search: the loop over the hits from hit n on
RECURSIVE HitsLoop(_, _, _, _)
HitsLoop(hits, n, cs, results) ==
    IF n > Len(hits) THEN results
    ELSE IF hits[n].idx < Len(cs) /\ hits[n].idx >= 0
         THEN HitsLoop(hits, n + 1, cs,
                       Append(results, [chunk |-> cs[hits[n].idx + 1],
                                        score |-> hits[n].score]))
         ELSE HitsLoop(hits, n + 1, cs, results)

\* EmbeddingIndex.search(query, top_k)
search(ix, cs, top_k) ==
    IF ~ix.built
    THEN [raised |-> "ValueError: Index not built or loaded", results |-> <<>>]
    ELSE [raised |-> "none", results |-> HitsLoop(FaissSearch(ix, top_k), 1, cs, <<>>)]

----------------------------------------------------------------------------
(* backend/router/classifier.py *)

UpperCase == <<"A", "B", "C", "D", "E", "F", "G", "H", "I", "J", "K", "L", "M", "N", "O", "P", "Q", "R", "S", "T", "U", "V", "W", "X", "Y", "Z">>
LowerCase == <<"a", "b", "c", "d", "e", "f", "g", "h", "i", "j", "k", "l", "m", "n", "o", "p", "q", "r", "s", "t", "u", "v", "w", "x", "y", "z">>
Digits == {"0", "1", "2", "3", "4", "5", "6", "7", "8", "9"}

\* The characters \w matches, on which \b depends
WordChars == {LowerCase[i] : i \in 1..26} \cup {UpperCase[i] : i \in 1..26}
                 \cup Digits \cup {"_"}

\* The lower-case letter of each upper-case letter
LowerOf == [c \in {UpperCase[i] : i \in 1..26} |->
               LowerCase[CHOOSE i \in 1..26 : UpperCase[i] = c]]

LowerChar(c) == IF c \in DOMAIN LowerOf THEN LowerOf[c] ELSE c

\* str.lower()
Lower(s) == [i \in 1..Len(s) |-> LowerChar(s[i])]

\* the literal lit stands in s at position i
LitAt(s, i, lit) ==
    /\ s[i] = lit[1]
    /\ i + Len(lit) - 1 <= Len(s)
    /\ \A j \in 2..Len(lit) : s[i + j - 1] = lit[j]

\* `keyword in s`, for a non-empty keyword
Contains(s, keyword) == \E i \in 1..Len(s) : LitAt(s, i, keyword)

\* \b between s[i-1] and s[i]: exactly one side is a word character
WordBoundary(s, i) ==
    (i > 1 /\ s[i - 1] \in WordChars) # (i <= Len(s) /\ s[i] \in WordChars)

\* The positions right after a match, starting at i, of the literals of alt from
\* the p-th on, with \s+ between consecutive literals
RECURSIVE MatchEnds(_, _, _, _)
MatchEnds(s, i, alt, p) ==
    IF i > Len(s) \/ ~LitAt(s, i, alt[p]) THEN {}
    ELSE LET e == i + Len(alt[p])
         IN  IF p = Len(alt) THEN {e}
             ELSE IF e > Len(s) \/ s[e] \notin WS THEN {}
             ELSE UNION {MatchEnds(s, k + 1, alt, p + 1) : k \in e..WsRunEnd(s, e)}

\* re.search(pattern, s) for a pattern \b(alt|...|alt)\b
re_search(pattern, s) ==
    \E a \in 1..Len(pattern) : \E i \in 1..Len(s) :
        /\ WordBoundary(s, i)
        /\ \E e \in MatchEnds(s, i, pattern[a], 1) : WordBoundary(s, e)

\* \b(hi|hello|hey|howdy|greetings|good\s+(morning|afternoon|evening))\b : each
\* alternative as its literals, which \s+ separates
GREETING_PATTERN_1 == <<
    <<<<"h", "i">>>>,
    <<<<"h", "e", "l", "l", "o">>>>,
    <<<<"h", "e", "y">>>>,
    <<<<"h", "o", "w", "d", "y">>>>,
    <<<<"g", "r", "e", "e", "t", "i", "n", "g", "s">>>>,
    <<<<"g", "o", "o", "d">>, <<"m", "o", "r", "n", "i", "n", "g">>>>,
    <<<<"g", "o", "o", "d">>, <<"a", "f", "t", "e", "r", "n", "o", "o", "n">>>>,
    <<<<"g", "o", "o", "d">>, <<"e", "v", "e", "n", "i", "n", "g">>>>
>>

\* \b(thanks|thank\s+you|bye|goodbye|see\s+you|cheers)\b
GREETING_PATTERN_2 == <<
    <<<<"t", "h", "a", "n", "k", "s">>>>,
    <<<<"t", "h", "a", "n", "k">>, <<"y", "o", "u">>>>,
    <<<<"b", "y", "e">>>>,
    <<<<"g", "o", "o", "d", "b", "y", "e">>>>,
    <<<<"s", "e", "e">>, <<"y", "o", "u">>>>,
    <<<<"c", "h", "e", "e", "r", "s">>>>
>>

GREETING_PATTERNS == <<GREETING_PATTERN_1, GREETING_PATTERN_2>>

\* Keywords that indicate complexity
COMPLEX_KEYWORDS == <<
    <<"h", "o", "w">>,
    <<"w", "h", "y">>,
    <<"e", "x", "p", "l", "a", "i", "n">>,
    <<"c", "o", "m", "p", "a", "r", "e">>,
    <<"c", "o", "m", "p", "a", "r", "i", "s", "o", "n">>,
    <<"d", "i", "f", "f", "e", "r", "e", "n", "c", "e">>,
    <<"d", "i", "f", "f", "e", "r", "e", "n", "c", "e", "s">>,
    <<"b", "e", "t", "w", "e", "e", "n">>,
    <<"s", "t", "e", "p", "s">>,
    <<"t", "r", "o", "u", "b", "l", "e", "s", "h", "o", "o", "t">>,
    <<"t", "r", "o", "u", "b", "l", "e", "s", "h", "o", "o", "t", "i", "n", "g">>,
    <<"c", "o", "n", "f", "i", "g", "u", "r", "e">>,
    <<"c", "o", "n", "f", "i", "g", "u", "r", "a", "t", "i", "o", "n">>,
    <<"i", "n", "t", "e", "g", "r", "a", "t", "e">>,
    <<"i", "n", "t", "e", "g", "r", "a", "t", "i", "o", "n">>,
    <<"s", "e", "t", "u", "p">>,
    <<"s", "e", "t", " ", "u", "p">>,
    <<"m", "u", "l", "t", "i">>,
    <<"m", "u", "l", "t", "i", "p", "l", "e">>,
    <<"d", "e", "t", "a", "i", "l", "e", "d">>,
    <<"d", "e", "s", "c", "r", "i", "b", "e">>,
    <<"w", "a", "l", "k", " ", "m", "e", " ", "t", "h", "r", "o", "u", "g", "h">>,
    <<"g", "u", "i", "d", "e">>,
    <<"p", "r", "o", "c", "e", "s", "s">>,
    <<"w", "o", "r", "k", "f", "l", "o", "w">>,
    <<"m", "i", "g", "r", "a", "t", "e">>,
    <<"m", "i", "g", "r", "a", "t", "i", "o", "n">>,
    <<"a", "r", "c", "h", "i", "t", "e", "c", "t", "u", "r", "e">>,
    <<"i", "m", "p", "l", "e", "m", "e", "n", "t">>,
    <<"i", "m", "p", "l", "e", "m", "e", "n", "t", "a", "t", "i", "o", "n">>
>>

\* Complaint/urgency indicators
COMPLAINT_KEYWORDS == <<
    <<"n", "o", "t", " ", "w", "o", "r", "k", "i", "n", "g">>,
    <<"b", "r", "o", "k", "e", "n">>,
    <<"i", "s", "s", "u", "e">>,
    <<"p", "r", "o", "b", "l", "e", "m">>,
    <<"b", "u", "g">>,
    <<"e", "r", "r", "o", "r">>,
    <<"f", "r", "u", "s", "t", "r", "a", "t", "e", "d">>,
    <<"u", "r", "g", "e", "n", "t">>,
    <<"c", "r", "i", "t", "i", "c", "a", "l">>,
    <<"f", "a", "i", "l", "i", "n", "g">>,
    <<"f", "a", "i", "l", "e", "d">>,
    <<"c", "a", "n", "'", "t">>,
    <<"c", "a", "n", "n", "o", "t">>,
    <<"u", "n", "a", "b", "l", "e">>,
    <<"d", "o", "e", "s", "n", "'", "t", " ", "w", "o", "r", "k">>,
    <<"w", "o", "n", "'", "t">>,
    <<"h", "e", "l", "p", " ", "m", "e">>,
    <<"s", "t", "u", "c", "k">>,
    <<"c", "o", "n", "f", "u", "s", "e", "d">>
>>

\* Rule 6's conjunctions
subordinate_conjunctions == <<
    <<"a", "n", "d">>,
    <<"b", "u", "t">>,
    <<"b", "e", "c", "a", "u", "s", "e">>,
    <<"w", "h", "i", "l", "e">>,
    <<"w", "h", "e", "n">>,
    <<"a", "l", "t", "h", "o", "u", "g", "h">>,
    <<"h", "o", "w", "e", "v", "e", "r">>
>>

\* backend/config.py
MODEL_SIMPLE == "llama-3.1-8b-instant"
MODEL_COMPLEX == "llama-3.3-70b-versatile"

\* A signal string: its name, and the number or the keywords formatted into it
Signal(name, count, found) == [name |-> name, count |-> count, found |-> found]

\* s.count("?")
RECURSIVE CountChar(_, _)
CountChar(s, c) ==
    IF s = <<>> THEN 0 ELSE (IF Head(s) = c THEN 1 ELSE 0) + CountChar(Tail(s), c)

\* [k for k in keywords if test(k)], in the list's order
RECURSIVE Found(_, _, _)
Found(keywords, i, s) ==
    IF i > Len(keywords) THEN <<>>
    ELSE (IF Contains(s, keywords[i]) THEN <<keywords[i]>> ELSE <<>>)
         \o Found(keywords, i + 1, s)

\* Rule 1: some greeting pattern matches
IsGreeting(query_lower) ==
    \E n \in 1..Len(GREETING_PATTERNS) : re_search(GREETING_PATTERNS[n], query_lower)

\* A slip in the decision: `complexity_score > 2`.
DecisionAboveTwo(complexity_score) ==
    [classification |-> IF complexity_score > 2 THEN "complex" ELSE "simple",
     model |-> IF complexity_score > 2 THEN MODEL_COMPLEX ELSE MODEL_SIMPLE]

\* Decision: threshold of 2 -> complex
Decision(complexity_score) ==
    [classification |-> IF complexity_score >= 2 THEN "complex" ELSE "simple",
     model |-> IF complexity_score >= 2 THEN MODEL_COMPLEX ELSE MODEL_SIMPLE]

\* Rules 2-6 and the decision, from the signals rule 1 left
Score(q, query_lower, word_count, signals) ==
    LET len_score == IF word_count >= 15 THEN 2 ELSE IF word_count >= 10 THEN 1 ELSE 0
        signals2 ==
            IF word_count >= 15
            THEN Append(signals, Signal("long_query", word_count, <<>>))
            ELSE IF word_count >= 10
            THEN Append(signals, Signal("moderate_length", word_count, <<>>))
            ELSE signals
        complex_keywords_found == Found(COMPLEX_KEYWORDS, 1, query_lower)
        kw_score == IF Len(complex_keywords_found) >= 2 THEN 2
                    ELSE IF Len(complex_keywords_found) = 1 THEN 1 ELSE 0
        signals3 ==
            IF Len(complex_keywords_found) >= 2
            THEN Append(signals2,
                        Signal("multiple_complex_keywords", 0, complex_keywords_found))
            ELSE IF Len(complex_keywords_found) = 1
            THEN Append(signals2, Signal("complex_keyword", 0, complex_keywords_found))
            ELSE signals2
        question_marks == CountChar(q, "?")
        qm_score == IF question_marks >= 2 THEN 2 ELSE 0
        signals4 ==
            IF question_marks >= 2
            THEN Append(signals3, Signal("multi_question", question_marks, <<>>))
            ELSE signals3
        complaint_found == Found(COMPLAINT_KEYWORDS, 1, query_lower)
        complaint_score == IF complaint_found # <<>> THEN 1 ELSE 0
        signals5 ==
            IF complaint_found # <<>>
            THEN Append(signals4, Signal("complaint_indicators", 0, complaint_found))
            ELSE signals4
        padded == <<" ">> \o query_lower \o <<" ">>
        spaced == [i \in 1..Len(subordinate_conjunctions) |->
                      <<" ">> \o subordinate_conjunctions[i] \o <<" ">>]
        conj_found == Found(spaced, 1, padded)
        conj_score == IF Len(conj_found) >= 2 THEN 1 ELSE 0
        signals6 ==
            IF Len(conj_found) >= 2
            THEN Append(signals5, Signal("subordinate_clauses", 0, conj_found))
            ELSE signals5
        complexity_score == len_score + kw_score + qm_score + complaint_score + conj_score
    IN  [classification |-> Decision(complexity_score).classification,
         model_used |-> Decision(complexity_score).model,
         signals |-> IF signals6 = <<>>
                     THEN <<Signal("no_special_signals", 0, <<>>)>>
                     ELSE signals6,
         complexity_score |-> complexity_score]

\* A slip in the short-circuit: `word_count < 5`.
classify_query_under_five(q) ==
    LET query_lower == strip(Lower(q))
        word_count == Len(SplitWords(query_lower))
        is_greeting == IsGreeting(query_lower)
        signals == IF is_greeting THEN <<Signal("greeting_detected", 0, <<>>)>> ELSE <<>>
    IN  IF is_greeting /\ word_count < 5
        THEN [classification |-> "simple", model_used |-> MODEL_SIMPLE,
              signals |-> signals, complexity_score |-> 0]
        ELSE Score(q, query_lower, word_count, signals)

\* classify_query(query); complexity_score is the local variable's last value
classify_query(q) ==
    LET query_lower == strip(Lower(q))
        word_count == Len(SplitWords(query_lower))
        is_greeting == IsGreeting(query_lower)
        signals == IF is_greeting THEN <<Signal("greeting_detected", 0, <<>>)>> ELSE <<>>
    IN  IF is_greeting /\ word_count <= 5
        THEN [classification |-> "simple", model_used |-> MODEL_SIMPLE,
              signals |-> signals, complexity_score |-> 0]
        ELSE Score(q, query_lower, word_count, signals)

----------------------------------------------------------------------------
(* backend/evaluator/evaluator.py *)

\* Phrases that indicate the LLM is refusing or doesn't know
REFUSAL_PHRASES == <<
    <<"i", " ", "d", "o", "n", "'", "t", " ", "h", "a", "v", "e">>,
    <<"i", " ", "d", "o", " ", "n", "o", "t", " ", "h", "a", "v", "e">>,
    <<"n", "o", "t", " ", "m", "e", "n", "t", "i", "o", "n", "e", "d">>,
    <<"c", "a", "n", "n", "o", "t", " ", "f", "i", "n", "d">>,
    <<"c", "a", "n", "'", "t", " ", "f", "i", "n", "d">>,
    <<"n", "o", " ", "i", "n", "f", "o", "r", "m", "a", "t", "i", "o", "n">>,
    <<"i", "'", "m", " ", "n", "o", "t", " ", "s", "u", "r", "e">>,
    <<"i", " ", "a", "m", " ", "n", "o", "t", " ", "s", "u", "r", "e">>,
    <<"d", "o", "n", "'", "t", " ", "k", "n", "o", "w">>,
    <<"d", "o", " ", "n", "o", "t", " ", "k", "n", "o", "w">>,
    <<"n", "o", "t", " ", "a", "v", "a", "i", "l", "a", "b", "l", "e">>,
    <<"n", "o", " ", "r", "e", "l", "e", "v", "a", "n", "t">>,
    <<"u", "n", "a", "b", "l", "e", " ", "t", "o", " ", "f", "i", "n", "d">>,
    <<"u", "n", "a", "b", "l", "e", " ", "t", "o", " ", "a", "n", "s", "w", "e", "r">>,
    <<"n", "o", "t", " ", "e", "n", "o", "u", "g", "h", " ", "i", "n", "f", "o", "r", "m", "a", "t", "i", "o", "n">>,
    <<"n", "o", "t", " ", "p", "r", "o", "v", "i", "d", "e", "d", " ", "i", "n">>,
    <<"d", "o", "e", "s", "n", "'", "t", " ", "c", "o", "n", "t", "a", "i", "n">>,
    <<"d", "o", "e", "s", " ", "n", "o", "t", " ", "c", "o", "n", "t", "a", "i", "n">>,
    <<"n", "o", "t", " ", "i", "n", " ", "t", "h", "e", " ", "d", "o", "c", "u", "m", "e", "n", "t", "a", "t", "i", "o", "n">>,
    <<"c", "o", "n", "t", "e", "x", "t", " ", "d", "o", "e", "s", "n", "'", "t">>,
    <<"c", "o", "n", "t", "e", "x", "t", " ", "d", "o", "e", "s", " ", "n", "o", "t">>,
    <<"n", "o", " ", "d", "o", "c", "u", "m", "e", "n", "t", "a", "t", "i", "o", "n">>,
    <<"i", " ", "c", "a", "n", "n", "o", "t">>,
    <<"i", " ", "c", "a", "n", "'", "t">>
>>

\* Phrases that suggest conflicting information
CONFLICT_PHRASES == <<
    <<"c", "o", "n", "f", "l", "i", "c", "t", "i", "n", "g">>,
    <<"c", "o", "n", "t", "r", "a", "d", "i", "c", "t", "o", "r", "y">>,
    <<"i", "n", "c", "o", "n", "s", "i", "s", "t", "e", "n", "t">>,
    <<"d", "i", "s", "c", "r", "e", "p", "a", "n", "c", "y">>,
    <<"d", "i", "f", "f", "e", "r", "s", " ", "f", "r", "o", "m">>,
    <<"d", "i", "f", "f", "e", "r", "e", "n", "t", " ", "f", "r", "o", "m", " ", "w", "h", "a", "t">>,
    <<"v", "a", "r", "i", "e", "s", " ", "d", "e", "p", "e", "n", "d", "i", "n", "g">>,
    <<"u", "n", "c", "l", "e", "a", "r", " ", "f", "r", "o", "m", " ", "t", "h", "e", " ", "d", "o", "c", "u", "m", "e", "n", "t", "a", "t", "i", "o", "n">>,
    <<"m", "u", "l", "t", "i", "p", "l", "e", " ", "s", "o", "u", "r", "c", "e", "s", " ", "s", "u", "g", "g", "e", "s", "t", " ", "d", "i", "f", "f", "e", "r", "e", "n", "t">>,
    <<"a", "p", "p", "e", "a", "r", "s", " ", "t", "o", " ", "c", "o", "n", "f", "l", "i", "c", "t">>,
    <<"h", "o", "w", "e", "v", "e", "r", ",", " ", "a", "n", "o", "t", "h", "e", "r">>,
    <<"o", "n", " ", "t", "h", "e", " ", "o", "t", "h", "e", "r", " ", "h", "a", "n", "d">>,
    <<"b", "u", "t", " ", "t", "h", "e", " ", "d", "o", "c", "u", "m", "e", "n", "t", "a", "t", "i", "o", "n", " ", "a", "l", "s", "o", " ", "s", "t", "a", "t", "e", "s">>,
    <<"n", "o", "t", "e", " ", "t", "h", "a", "t", " ", "t", "h", "e", "r", "e", " ", "m", "a", "y", " ", "b", "e">>
>>

\* _check_conflicting_info: transition_words
transition_words == <<
    <<"h", "o", "w", "e", "v", "e", "r">>,
    <<"b", "u", "t">>,
    <<"a", "l", "t", "h", "o", "u", "g", "h">>,
    <<"w", "h", "e", "r", "e", "a", "s">>,
    <<"n", "e", "v", "e", "r", "t", "h", "e", "l", "e", "s", "s">>
>>

\* A retrieved chunk record, as the evaluator reads it, is its document and,
\* when the record has that key, its relevance_score.
\* c.get("relevance_score", 0)
GetRelevanceScore(c) == IF c.has_score THEN c.relevance_score ELSE 0

\* max((c.get("relevance_score", 0) for c in retrieved_chunks), default=0)
RECURSIVE MaxScore(_)
MaxScore(cs) ==
    IF cs = <<>> THEN 0
    ELSE IF Len(cs) = 1 THEN GetRelevanceScore(cs[1])
    ELSE Max(GetRelevanceScore(Head(cs)), MaxScore(Tail(cs)))

\* The truth value of an optional list argument: passed and non-empty
Truthy(x) == x.given /\ x.val # <<>>

\* A slip in the low-score test: `max_score <= 0.4`.
effectively_no_context_at_most(chunks_retrieved, retrieved_chunks) ==
    IF chunks_retrieved = 0 THEN TRUE
    ELSE IF Truthy(retrieved_chunks) THEN MaxScore(retrieved_chunks.val) <= 40000
    ELSE FALSE

\* evaluate_response, flag 1: effectively_no_context (0.4 is 40000 units)
effectively_no_context(chunks_retrieved, retrieved_chunks) ==
    IF chunks_retrieved = 0 THEN TRUE
    ELSE IF Truthy(retrieved_chunks) THEN MaxScore(retrieved_chunks.val) < 40000
    ELSE FALSE

\* _check_refusal(answer_lower)
check_refusal(answer_lower) ==
    \E i \in 1..Len(REFUSAL_PHRASES) : Contains(answer_lower, REFUSAL_PHRASES[i])

\* sum(1 for w in transition_words if w in answer_lower)
transition_count(answer_lower) ==
    Cardinality({i \in 1..Len(transition_words) :
                    Contains(answer_lower, transition_words[i])})

\* A slip in the heuristic: one transition word is enough.
check_conflicting_info_one_transition(answer_lower, retrieved_chunks) ==
    \/ \E i \in 1..Len(CONFLICT_PHRASES) : Contains(answer_lower, CONFLICT_PHRASES[i])
    \/ /\ Truthy(retrieved_chunks)
       /\ Len(retrieved_chunks.val) >= 3
       /\ Cardinality({retrieved_chunks.val[i].document :
                          i \in 1..Len(retrieved_chunks.val)}) >= 3
       /\ transition_count(answer_lower) >= 1

\* _check_conflicting_info(answer_lower, retrieved_chunks)
check_conflicting_info(answer_lower, retrieved_chunks) ==
    \/ \E i \in 1..Len(CONFLICT_PHRASES) : Contains(answer_lower, CONFLICT_PHRASES[i])
    \/ /\ Truthy(retrieved_chunks)
       /\ Len(retrieved_chunks.val) >= 3
       /\ Cardinality({retrieved_chunks.val[i].document :
                          i \in 1..Len(retrieved_chunks.val)}) >= 3
       /\ transition_count(answer_lower) >= 2

\* A slip in flag 2: refusal is reported whatever the context was.
evaluate_response_refusal_regardless(answer, chunks_retrieved, retrieved_chunks) ==
    LET answer_lower == Lower(answer)
        no_context == effectively_no_context(chunks_retrieved, retrieved_chunks)
    IN  (IF no_context THEN <<"no_context">> ELSE <<>>)
        \o (IF check_refusal(answer_lower) THEN <<"refusal">> ELSE <<>>)
        \o (IF check_conflicting_info(answer_lower, retrieved_chunks)
            THEN <<"conflicting_info">> ELSE <<>>)

\* evaluate_response(answer, chunks_retrieved, retrieved_chunks): the flags
evaluate_response(answer, chunks_retrieved, retrieved_chunks) ==
    LET answer_lower == Lower(answer)
        no_context == effectively_no_context(chunks_retrieved, retrieved_chunks)
    IN  (IF no_context THEN <<"no_context">> ELSE <<>>)
        \o (IF check_refusal(answer_lower) /\ ~no_context
            THEN <<"refusal">> ELSE <<>>)
        \o (IF check_conflicting_info(answer_lower, retrieved_chunks)
            THEN <<"conflicting_info">> ELSE <<>>)

\* `x in flags`
InList(x, list) == \E i \in 1..Len(list) : list[i] = x

\* " and ".join(warnings)
RECURSIVE JoinAnd(_)
JoinAnd(warnings) ==
    IF warnings = <<>> THEN <<>>
    ELSE IF Len(warnings) = 1 THEN warnings[1]
    ELSE warnings[1] \o <<" ", "a", "n", "d", " ">> \o JoinAnd(Tail(warnings))

\* The texts of get_warning_message; a character outside ASCII is written as
\* its code point.
NO_CONTEXT_WARNING ==
    <<"n", "o", " ", "r", "e", "l", "e", "v", "a", "n", "t", " ", "d", "o",
      "c", "u", "m", "e", "n", "t", "a", "t", "i", "o", "n", " ", "w", "a",
      "s", " ", "f", "o", "u", "n", "d", " ", "f", "o", "r", " ", "t", "h",
      "i", "s", " ", "q", "u", "e", "r", "y">>
REFUSAL_WARNING ==
    <<"t", "h", "e", " ", "a", "s", "s", "i", "s", "t", "a", "n", "t", " ",
      "c", "o", "u", "l", "d", " ", "n", "o", "t", " ", "f", "i", "n", "d",
      " ", "a", " ", "d", "e", "f", "i", "n", "i", "t", "i", "v", "e", " ",
      "a", "n", "s", "w", "e", "r">>
CONFLICT_WARNING ==
    <<"t", "h", "e", " ", "d", "o", "c", "u", "m", "e", "n", "t", "a", "t",
      "i", "o", "n", " ", "m", "a", "y", " ", "c", "o", "n", "t", "a", "i",
      "n", " ", "c", "o", "n", "f", "l", "i", "c", "t", "i", "n", "g", " ",
      "i", "n", "f", "o", "r", "m", "a", "t", "i", "o", "n">>
WARNING_PREFIX ==
    <<"U+26A0", "U+FE0F", " ", "L", "o", "w", " ", "c", "o", "n", "f", "i",
      "d", "e", "n", "c", "e", " ", "U+2014", " ">>
WARNING_SUFFIX ==
    <<".", " ", "P", "l", "e", "a", "s", "e", " ", "c", "o", "n", "f", "i",
      "r", "m", " ", "w", "i", "t", "h", " ", "o", "u", "r", " ", "s", "u",
      "p", "p", "o", "r", "t", " ", "t", "e", "a", "m", ".">>

\* get_warning_message(flags)
get_warning_message(flags) ==
    IF flags = <<>> THEN <<>>
    ELSE LET warnings ==
                 (IF InList("no_context", flags) THEN <<NO_CONTEXT_WARNING>> ELSE <<>>)
                 \o (IF InList("refusal", flags) THEN <<REFUSAL_WARNING>> ELSE <<>>)
                 \o (IF InList("conflicting_info", flags)
                     THEN <<CONFLICT_WARNING>> ELSE <<>>)
         IN  WARNING_PREFIX \o JoinAnd(warnings) \o WARNING_SUFFIX

----------------------------------------------------------------------------
(* backend/main.py, backend/db/crud.py, backend/llm/groq_client.py *)

\* A stored Message row, in created_at order; `by` names the request that
\* wrote it and is not a column.
Message(conversation_id, role, content, by) ==
    [conversation_id |-> conversation_id, role |-> role, content |-> content,
     by |-> by]

\* A slip in the filter: the owner is not compared.
get_conversation_of_any_user(convs, conversation_id, user_id) ==
    {i \in 1..Len(convs) : convs[i].id = conversation_id}

\* crud.get_conversation(db, conversation_id, user_id): the rows found
get_conversation(convs, conversation_id, user_id) ==
    {i \in 1..Len(convs) : convs[i].id = conversation_id /\ convs[i].user_id = user_id}

\* crud.get_conversation_messages(db, conversation_id)
get_conversation_messages(msgs, conversation_id) ==
    SelectSeq(msgs, LAMBDA m : m.conversation_id = conversation_id)

\* get_formatted_history's default max_turns
DEFAULT_MAX_TURNS == 5

\* A slip in the slice: the first max_turns * 2 messages.
get_formatted_history_oldest(msgs, conversation_id, max_turns) ==
    LET stored == get_conversation_messages(msgs, conversation_id)
        recent_messages == IF Len(stored) > max_turns * 2
                           THEN SubSeq(stored, 1, max_turns * 2)
                           ELSE stored
    IN  [i \in 1..Len(recent_messages) |->
            LET msg == recent_messages[i]
            IN  [role |-> msg.role,
                 content |-> IF msg.role = "assistant" /\ Len(msg.content) > 500
                             THEN SubSeq(msg.content, 1, 500) \o <<".", ".", ".">>
                             ELSE msg.content]]

\* get_formatted_history(db, conversation_id, max_turns)
get_formatted_history(msgs, conversation_id, max_turns) ==
    LET stored == get_conversation_messages(msgs, conversation_id)
        recent_messages == IF Len(stored) > max_turns * 2
                           THEN NegSlice(stored, max_turns * 2)
                           ELSE stored
    IN  [i \in 1..Len(recent_messages) |->
            LET msg == recent_messages[i]
            IN  [role |-> msg.role,
                 content |-> IF msg.role = "assistant" /\ Len(msg.content) > 500
                             THEN SubSeq(msg.content, 1, 500) \o <<".", ".", ".">>
                             ELSE msg.content]]

\* GroqClient.generate and generate_stream: the history part of `messages`,
\* between the system prompt and the user message
ExtendedWith(conversation_history) ==
    IF conversation_history # <<>> THEN conversation_history ELSE <<>>

\* is_greeting = "greeting_detected" in signals and len(question.split()) <= 5
is_greeting_of(routing, question) ==
    /\ InList(Signal("greeting_detected", 0, <<>>), routing.signals)
    /\ Len(SplitWords(question)) <= 5

\* The chunk dicts retrieve_async returns for the rows it kept: the document
\* of the row and its relevance_score
ChunkDicts(out, documents) ==
    [i \in 1..Len(out) |->
        [document |-> documents[out[i].chunk], has_score |-> TRUE,
         relevance_score |-> out[i].relevance_score]]

\* A slip in the prepending: the warning replaces the answer.
WithWarningOnly(warning, llm_answer) ==
    IF warning # <<>> THEN warning ELSE llm_answer

\* query: answer = f"{warning}\n\n{answer}" if warning
WithWarning(warning, llm_answer) ==
    IF warning # <<>> THEN warning \o <<"\n", "\n">> \o llm_answer ELSE llm_answer

----------------------------------------------------------------------------
(* The state before anything was called.  Each specification below runs one *)
(* component and leaves the others in this state.                           *)

NoChunkCall ==
    [called |-> FALSE, chunk_size |-> 0, chunk_overlap |-> 0,
     chunks |-> <<>>, flushes |-> <<>>]

ChunkIdle ==
    /\ text = <<>>
    /\ chunk_call = NoChunkCall

NoRetrCall ==
    [called |-> FALSE, top_k |-> None, threshold |-> None, rows |-> <<>>, out |-> <<>>]

RetrIdle ==
    /\ db = <<>>
    /\ retr_call = NoRetrCall

NoSearchCall ==
    [called |-> FALSE, top_k |-> 0, completed |-> FALSE, raised |-> "none",
     results |-> <<>>]

IndexIdle ==
    /\ self_index = NoIndex
    /\ self_chunks = <<>>
    /\ disk = [index |-> Absent, meta |-> Absent]
    /\ completed = FALSE
    /\ outcome = "none"
    /\ search_call = NoSearchCall

NoClassCall ==
    [called |-> FALSE, classification |-> "none", model_used |-> "none",
     signals |-> <<>>, complexity_score |-> 0]

ClassIdle ==
    /\ query = <<>>
    /\ class_call = NoClassCall

NoEvalCall ==
    [called |-> FALSE, chunks_retrieved |-> 0, retrieved_chunks |-> None,
     flags |-> <<>>]

EvalIdle ==
    /\ eval_answer = <<>>
    /\ retrieved = <<>>
    /\ eval_call = NoEvalCall

\* The requests that may arrive
Tasks == {"t1", "t2"}

\* A request that has not arrived
NoRequest ==
    [pc |-> "idle", endpoint |-> "none", user |-> "none", question |-> <<>>,
     conversation_id |-> None, status |-> 0, conv |-> 0,
     classification |-> "none", model_used |-> "none", is_greeting |-> FALSE,
     history |-> <<>>, sent_history |-> <<>>, retrieved_chunks |-> <<>>,
     llm_answer |-> <<>>, terminal |-> "none", evaluator_flags |-> <<>>,
     answer |-> <<>>, response |-> <<>>, trace |-> <<>>]

QueryIdle ==
    /\ conversations = <<>>
    /\ messages = <<>>
    /\ tasks = [t \in Tasks |-> NoRequest]

\* The concurrent callers
Callers == {"k1", "k2"}

\* A caller that has not called
NoCall ==
    [pc |-> "idle", op |-> "none", args |-> <<>>, hits |-> <<>>, n |-> 0,
     results |-> <<>>, overlapped |-> FALSE]

ConcIdle == callers = [k \in Callers |-> NoCall]

\* No stream was asked for
NoStream == [outcome |-> "none", chunks |-> <<>>]
NoGenerator == [pc |-> "none", pos |-> 0, output_tokens |-> 0, yielded |-> <<>>]
NoEvents == [pc |-> "none", full_answer |-> <<>>, events |-> <<>>]

StreamIdle ==
    /\ api = NoStream
    /\ gen = NoGenerator
    /\ sse = NoEvents

\* build_context and chunk_pages were not called
NoContextCall == [called |-> FALSE, chunks |-> <<>>, out |-> <<>>]
NoPagesCall ==
    [called |-> FALSE, pages |-> <<>>, chunk_size |-> 0, chunk_overlap |-> 0, out |-> <<>>]

PureIdle ==
    /\ context_call = NoContextCall
    /\ pages_call = NoPagesCall

\* No conversation endpoint was called
NoConvCall == [endpoint |-> "none"]

ConvIdle == conv_call = NoConvCall

----------------------------------------------------------------------------
(* The retriever's specification: chunks are stored, then retrieve is      *)
(* called with a top_k and a threshold.                                    *)

MaxRows == 3
Distances == {0, 50000, 69996, 69999, 90000, 100000, 130000}
TopKArgs == {None, Arg(0), Arg(1), Arg(2)}
ThresholdArgs == {None, Arg(0), Arg(30004), Arg(50000), Arg(0 - 50000)}

InitRetr ==
    /\ RetrIdle
    /\ ChunkIdle
    /\ IndexIdle
    /\ ClassIdle
    /\ EvalIdle
    /\ QueryIdle
    /\ ConcIdle
    /\ StreamIdle
    /\ PureIdle
    /\ ConvIdle

StoreChunk ==
    /\ ~retr_call.called
    /\ Len(db) < MaxRows
    /\ \E d \in Distances : db' = Append(db, d)
    /\ UNCHANGED <<retr_call, chunkVars, indexVars, classVars, evalVars, queryVars, concVars, streamVars, pureVars, convVars>>

Retrieve ==
    /\ ~retr_call.called
    /\ \E top_k \in TopKArgs, threshold \in ThresholdArgs :
          \E rows \in NearestRows(db, PyOr(top_k, TOP_K)) :
              retr_call' = [called |-> TRUE, top_k |-> top_k, threshold |-> threshold,
                            rows |-> rows,
                            out |-> retrieve_async(db, rows, threshold)]
    /\ UNCHANGED <<db, chunkVars, indexVars, classVars, evalVars, queryVars, concVars, streamVars, pureVars, convVars>>

NextRetr == StoreChunk \/ Retrieve

SpecRetr == InitRetr /\ [][NextRetr]_vars

----------------------------------------------------------------------------
(* The chunker's specification: a text is typed character by character and *)
(* chunk_text is applied to it.                                            *)

MaxTextLen == 5
Alphabet == {"a", ".", " ", "\n"}
ChunkSizes == 1..3
ChunkOverlaps == 0..3

InitChunk ==
    /\ ChunkIdle
    /\ RetrIdle
    /\ IndexIdle
    /\ ClassIdle
    /\ EvalIdle
    /\ QueryIdle
    /\ ConcIdle
    /\ StreamIdle
    /\ PureIdle
    /\ ConvIdle

TypeChar ==
    /\ ~chunk_call.called
    /\ Len(text) < MaxTextLen
    /\ \E c \in Alphabet : text' = Append(text, c)
    /\ UNCHANGED <<chunk_call, retrVars, indexVars, classVars, evalVars, queryVars, concVars, streamVars, pureVars, convVars>>

ChunkText ==
    /\ ~chunk_call.called
    /\ \E chunk_size \in ChunkSizes, chunk_overlap \in ChunkOverlaps :
          LET r == chunk_text_run(text, chunk_size, chunk_overlap)
          IN  chunk_call' = [called |-> TRUE, chunk_size |-> chunk_size,
                             chunk_overlap |-> chunk_overlap,
                             chunks |-> r.chunks, flushes |-> r.flushes]
    /\ UNCHANGED <<text, retrVars, indexVars, classVars, evalVars, queryVars, concVars, streamVars, pureVars, convVars>>

NextChunk == TypeChar \/ ChunkText

SpecChunk == InitChunk /\ [][NextChunk]_vars

----------------------------------------------------------------------------
(* The embedding index's specification: one EmbeddingIndex object, created  *)
(* over an index directory in any condition, on which build_index, save and *)
(* load are called in any order, and then search.                           *)

MaxChunks == 2

\* The non-empty chunk lists of at most MaxChunks chunks
ChunkLists == UNION {[1..n -> ChunkIds] : n \in 1..MaxChunks}

IndexFiles == {Absent, Malformed} \cup {File(Encode(cs)) : cs \in ChunkLists}
MetaFiles == {Absent, Malformed} \cup {File(cs) : cs \in ChunkLists}
SearchTopK == 1..3

\* __init__, over a directory that may hold anything
InitIndex ==
    /\ self_index = NoIndex
    /\ self_chunks = <<>>
    /\ disk \in [index : IndexFiles, meta : MetaFiles]
    /\ completed = FALSE
    /\ outcome = "none"
    /\ search_call = NoSearchCall
    /\ ChunkIdle
    /\ RetrIdle
    /\ ClassIdle
    /\ EvalIdle
    /\ QueryIdle
    /\ ConcIdle
    /\ StreamIdle
    /\ PureIdle
    /\ ConvIdle

\* build_index(chunks) runs to its end
BuildIndex ==
    /\ ~search_call.called
    /\ \E cs \in ChunkLists :
          /\ self_chunks' = cs
          /\ self_index' = FlatIP(Encode(cs))
    /\ completed' = TRUE
    /\ outcome' = "build_index: ok"
    /\ UNCHANGED <<disk, search_call, chunkVars, retrVars, classVars, evalVars, queryVars, concVars, streamVars, pureVars, convVars>>

\* build_index(chunks) where model.encode raises: self.chunks is already set
BuildIndexEncodeRaises ==
    /\ ~search_call.called
    /\ \E cs \in ChunkLists : self_chunks' = cs
    /\ outcome' = "build_index: raised"
    /\ UNCHANGED <<self_index, disk, completed, search_call, chunkVars, retrVars, classVars, evalVars, queryVars, concVars, streamVars, pureVars, convVars>>

\* save(index_dir): faiss.write_index raises on self.index = None, before
\* anything is written; otherwise both files are written
Save ==
    /\ ~search_call.called
    /\ IF self_index.built
       THEN /\ disk' = [index |-> File(self_index.vectors), meta |-> File(self_chunks)]
            /\ outcome' = "save: ok"
       ELSE /\ disk' = disk
            /\ outcome' = "save: raised"
    /\ UNCHANGED <<self_index, self_chunks, completed, search_call, chunkVars, retrVars, classVars, evalVars, queryVars, concVars, streamVars, pureVars, convVars>>

\* load(index_dir): faiss.read_index raises on a missing or malformed
\* index.faiss; self.index is assigned before chunks_meta.json is opened, which
\* raises when that file is missing or malformed
Load ==
    /\ ~search_call.called
    /\ IF disk.index.kind # "ok"
       THEN /\ outcome' = "load: raised in read_index"
            /\ UNCHANGED <<self_index, self_chunks, completed>>
       ELSE /\ self_index' = FlatIP(disk.index.data)
            /\ IF disk.meta.kind # "ok"
               THEN /\ outcome' = "load: raised reading chunks_meta.json"
                    /\ UNCHANGED <<self_chunks, completed>>
               ELSE /\ self_chunks' = disk.meta.data
                    /\ completed' = TRUE
                    /\ outcome' = "load: ok"
    /\ UNCHANGED <<disk, search_call, chunkVars, retrVars, classVars, evalVars, queryVars, concVars, streamVars, pureVars, convVars>>

\* search(query, top_k)
Search ==
    /\ ~search_call.called
    /\ \E top_k \in SearchTopK :
          LET r == search(self_index, self_chunks, top_k)
          IN  search_call' = [called |-> TRUE, top_k |-> top_k, completed |-> completed,
                              raised |-> r.raised, results |-> r.results]
    /\ UNCHANGED <<self_index, self_chunks, disk, completed, outcome, chunkVars, retrVars, classVars, evalVars, queryVars, concVars, streamVars, pureVars, convVars>>

NextIndex == BuildIndex \/ BuildIndexEncodeRaises \/ Save \/ Load \/ Search

SpecIndex == InitIndex /\ [][NextIndex]_vars

----------------------------------------------------------------------------
(* The classifier's specification: a query is written word by word, first   *)
(* words of a vocabulary that touches every rule, then filler words, and    *)
(* classify_query is applied to it.                                         *)

MaxVocabWords == 2
MaxFillerWords == 14

\* Greetings (one capitalised and punctuated, one of two words), a word that
\* holds "hi" inside, complexity keywords (one inside another word), question
\* marks, a complaint word and two conjunctions.  An entry is written whole.
Vocabulary == {
    <<"H", "i", "!">>,
    <<"t", "h", "i", "s">>,
    <<"g", "o", "o", "d", " ", " ", "m", "o", "r", "n", "i", "n", "g">>,
    <<"h", "o", "w">>,
    <<"s", "h", "o", "w">>,
    <<"w", "h", "y", "?">>,
    <<"e", "r", "r", "o", "r", "?", "?">>,
    <<"a", "n", "d">>,
    <<"b", "u", "t">>
}

Filler == <<"x">>

WordsOf(q) == SplitWords(q)
FillersOf(q) == LET words == WordsOf(q) IN {i \in 1..Len(words) : words[i] = Filler}

AddedTo(q, word) == IF q = <<>> THEN word ELSE q \o <<" ">> \o word

InitClass ==
    /\ ClassIdle
    /\ ChunkIdle
    /\ RetrIdle
    /\ IndexIdle
    /\ EvalIdle
    /\ QueryIdle
    /\ ConcIdle
    /\ StreamIdle
    /\ PureIdle
    /\ ConvIdle

WriteWord ==
    /\ ~class_call.called
    /\ FillersOf(query) = {}
    /\ Len(WordsOf(query)) < MaxVocabWords
    /\ \E word \in Vocabulary : query' = AddedTo(query, word)
    /\ UNCHANGED <<class_call, chunkVars, retrVars, indexVars, evalVars, queryVars, concVars, streamVars, pureVars, convVars>>

WriteFiller ==
    /\ ~class_call.called
    /\ Cardinality(FillersOf(query)) < MaxFillerWords
    /\ query' = AddedTo(query, Filler)
    /\ UNCHANGED <<class_call, chunkVars, retrVars, indexVars, evalVars, queryVars, concVars, streamVars, pureVars, convVars>>

Classify ==
    /\ ~class_call.called
    /\ LET r == classify_query(query)
       IN  class_call' = [called |-> TRUE, classification |-> r.classification,
                          model_used |-> r.model_used, signals |-> r.signals,
                          complexity_score |-> r.complexity_score]
    /\ UNCHANGED <<query, chunkVars, retrVars, indexVars, evalVars, queryVars, concVars, streamVars, pureVars, convVars>>

NextClass == WriteWord \/ WriteFiller \/ Classify

SpecClass == InitClass /\ [][NextClass]_vars

----------------------------------------------------------------------------
(* The evaluator's specification: an answer is written, chunk records are   *)
(* retrieved one by one, and evaluate_response is applied to them.  The     *)
(* records come best score first, as the retriever returns them, or carry   *)
(* no relevance_score at all.                                               *)

MaxRetrieved == 3

\* A clean answer, a refusal, a conflict phrase, two transition words, one
\* transition word, a refusal with a conflict phrase.
Answers == {
    <<"T", "h", "e", " ", "p", "l", "a", "n", " ", "i", "s", " ", "$", "4", "9", ".">>,
    <<"I", " ", "c", "a", "n", "n", "o", "t", " ", "f", "i", "n", "d", " ", "i", "t", ".">>,
    <<"H", "o", "w", "e", "v", "e", "r", ",", " ", "a", "n", "o", "t", "h", "e", "r", " ",
      "p", "a", "g", "e", ".">>,
    <<"B", "u", "t", " ", "o", "k", ",", " ", "a", "l", "t", "h", "o", "u", "g", "h", " ",
      "s", "l", "o", "w", ".">>,
    <<"H", "o", "w", "e", "v", "e", "r", " ", "o", "k", ".">>,
    <<"I", " ", "c", "a", "n", "'", "t", ":", " ", "c", "o", "n", "f", "l", "i", "c", "t",
      "i", "n", "g", ".">>
}

Documents == {"a.pdf", "b.pdf", "c.pdf"}
Scores == {39999, 40000}
ChunksRetrievedArgs == {0, 3}

\* The chunk records a call can be handed
ChunkRecords ==
    [document : Documents, has_score : {TRUE}, relevance_score : Scores]
    \cup [document : Documents, has_score : {FALSE}, relevance_score : {0}]

InitEval ==
    /\ EvalIdle
    /\ ChunkIdle
    /\ RetrIdle
    /\ IndexIdle
    /\ ClassIdle
    /\ QueryIdle
    /\ ConcIdle
    /\ StreamIdle
    /\ PureIdle
    /\ ConvIdle

WriteAnswer ==
    /\ ~eval_call.called
    /\ eval_answer = <<>>
    /\ \E a \in Answers : eval_answer' = a
    /\ UNCHANGED <<retrieved, eval_call, chunkVars, retrVars, indexVars, classVars, queryVars, concVars, streamVars, pureVars, convVars>>

AddRetrieved ==
    /\ ~eval_call.called
    /\ Len(retrieved) < MaxRetrieved
    /\ \E c \in ChunkRecords :
        /\ retrieved # <<>> =>
              LET last == retrieved[Len(retrieved)]
              IN  /\ c.has_score = last.has_score
                  /\ c.relevance_score <= last.relevance_score
        /\ retrieved' = Append(retrieved, c)
    /\ UNCHANGED <<eval_answer, eval_call, chunkVars, retrVars, indexVars, classVars, queryVars, concVars, streamVars, pureVars, convVars>>

Evaluate ==
    /\ ~eval_call.called
    /\ \E n \in ChunksRetrievedArgs :
       \E retrieved_chunks \in {Arg(retrieved)}
                                   \cup (IF retrieved = <<>> THEN {None} ELSE {}) :
          eval_call' = [called |-> TRUE, chunks_retrieved |-> n,
                        retrieved_chunks |-> retrieved_chunks,
                        flags |-> evaluate_response(eval_answer, n, retrieved_chunks)]
    /\ UNCHANGED <<eval_answer, retrieved, chunkVars, retrVars, indexVars, classVars, queryVars, concVars, streamVars, pureVars, convVars>>

NextEval == WriteAnswer \/ AddRetrieved \/ Evaluate

SpecEval == InitEval /\ [][NextEval]_vars

----------------------------------------------------------------------------
(* The request handlers' specification: requests to POST /query and POST    *)
(* /query/stream arrive one after the other over a database that holds one  *)
(* conversation of user u1 with some earlier exchanges, and a table of      *)
(* document chunks.  A handler advances from one database call to the next. *)

MaxPriorExchanges == 6

Users == {"u1", "u2"}
Endpoints == {"query", "stream"}

\* An empty question, a blank one, a short greeting to be stripped, a question
Questions == {
    <<>>,
    <<" ">>,
    <<" ", "H", "i", "!", " ">>,
    <<"w", "h", "y", "?">>
}

\* No conversation_id, the stored conversation's, the next one's
ConversationArgs == {None, Arg(1), Arg(2)}

\* The document_chunks table: empty, one chunk of similarity 0.5, three
\* chunks of three documents of similarities 0.39, 0.38, 0.37
StoredTables == {<<>>, <<50000>>, <<61000, 62000, 63000>>}
StoredDocuments == <<"a.pdf", "b.pdf", "c.pdf">>

\* An answer of more than 500 characters, with two transition words
LongAnswer ==
    LET start == <<"B", "u", "t", " ", "o", "k", ",", " ", "a", "l", "t", "h", "o", "u",
                   "g", "h", " ", "s", "l", "o", "w">>
    IN  [i \in 1..(500 + 1) |-> IF i <= Len(start) THEN start[i] ELSE "."]

\* What the language model may answer
GeneratedAnswers == {
    <<"O", "k", ".">>,
    <<"I", " ", "c", "a", "n", "'", "t", ".">>,
    LongAnswer
}

\* The conversation stored before the first request, of user u1
StoredConversation == [id |-> 1, user_id |-> "u1", title |-> <<"o", "l", "d">>]

\* The title generate_conversation_title gives
GeneratedTitle == <<"n", "e", "w">>

\* Conversation.id, a uuid4: an id that no conversation had before
FreshId == 2 + Cardinality({t \in Tasks : InList("create_conversation", tasks[t].trace)})

\* The conversation is in the table: the foreign key of a message to store
ConversationExists(conversation_id) ==
    \E i \in 1..Len(conversations) : conversations[i].id = conversation_id

\* The j-th earlier exchange of the stored conversation
ExchangeNames == <<"1", "2", "3", "4", "5", "6", "7", "8", "9">>
PriorExchange(j) ==
    <<Message(1, "user", <<"q", ExchangeNames[j]>>, "earlier"),
      Message(1, "assistant", <<"a", ExchangeNames[j]>>, "earlier")>>

RECURSIVE PriorMessages(_)
PriorMessages(k) ==
    IF k = 0 THEN <<>> ELSE PriorMessages(k - 1) \o PriorExchange(k)

InitQuery ==
    /\ conversations = <<StoredConversation>>
    /\ \E k \in {0, MaxPriorExchanges - 1, MaxPriorExchanges} :
          messages = PriorMessages(k)
    /\ tasks = [t \in Tasks |-> NoRequest]
    /\ db \in StoredTables
    /\ retr_call = NoRetrCall
    /\ ChunkIdle
    /\ IndexIdle
    /\ ClassIdle
    /\ EvalIdle
    /\ ConcIdle
    /\ StreamIdle
    /\ PureIdle
    /\ ConvIdle

\* A slip in the validation: `if not request.question`.
EmptyQuestionUnstripped(raw) == raw = <<>>

\* not request.question or not request.question.strip()
EmptyQuestion(raw) == raw = <<>> \/ strip(raw) = <<>>

\* The requests that arrive before request t does
Earlier(t) == IF t = "t2" THEN {"t1"} ELSE {}

\* query and query_stream up to get_or_create_conversation: the question is
\* validated and stripped, the conversation looked up or created (with a
\* title the language model is asked for)
Accept(t, endpoint, user, raw, conversation_id) ==
    /\ tasks[t].pc = "idle"
    /\ LET r == [tasks[t] EXCEPT !.endpoint = endpoint, !.user = user,
                                 !.question = raw,
                                 !.conversation_id = conversation_id]
       IN  IF EmptyQuestion(raw)
           THEN /\ tasks' = [tasks EXCEPT ![t] =
                               [r EXCEPT !.pc = "done", !.status = 400]]
                /\ UNCHANGED conversations
           ELSE IF conversation_id.given
           THEN /\ UNCHANGED conversations
                /\ IF get_conversation(conversations, conversation_id.val, user) = {}
                   THEN tasks' = [tasks EXCEPT ![t] =
                                     [r EXCEPT !.pc = "done", !.status = 403,
                                               !.question = strip(raw),
                                               !.trace = <<"get_conversation">>]]
                   ELSE tasks' = [tasks EXCEPT ![t] =
                                     [r EXCEPT !.pc = "opened",
                                               !.question = strip(raw),
                                               !.conv = conversation_id.val,
                                               !.trace = <<"get_conversation">>]]
           ELSE /\ conversations' =
                       Append(conversations,
                              [id |-> FreshId, user_id |-> user, title |-> GeneratedTitle])
                /\ tasks' = [tasks EXCEPT ![t] =
                                [r EXCEPT !.pc = "opened",
                                          !.question = strip(raw),
                                          !.conv = FreshId,
                                          !.trace = <<"generate",
                                                      "create_conversation">>]]
    /\ UNCHANGED <<messages, chunkVars, retrVars, indexVars, classVars, evalVars, concVars, streamVars, pureVars, convVars>>

\* A request arrives after the requests before it were answered
Receive(t) ==
    /\ \A u \in Earlier(t) : tasks[u].pc = "done"
    /\ \E endpoint \in Endpoints, user \in Users, raw \in Questions,
          conversation_id \in ConversationArgs :
          Accept(t, endpoint, user, raw, conversation_id)

\* classify_query, is_greeting and get_formatted_history
Route(t) ==
    /\ tasks[t].pc = "opened"
    /\ LET r == tasks[t]
           routing == classify_query(r.question)
       IN  tasks' = [tasks EXCEPT ![t] =
               [r EXCEPT !.pc = "routed",
                         !.classification = routing.classification,
                         !.model_used = routing.model_used,
                         !.is_greeting = is_greeting_of(routing, r.question),
                         !.history = get_formatted_history(messages, r.conv,
                                                           DEFAULT_MAX_TURNS),
                         !.trace = r.trace \o <<"classify_query",
                                                "get_formatted_history">>]]
    /\ UNCHANGED <<conversations, messages, chunkVars, retrVars, indexVars, classVars,
                   evalVars, concVars, streamVars, pureVars, convVars>>

\* A slip in the branch: retrieval on the greeting path too.
RetrieveChunksAlways(t) ==
    /\ tasks[t].pc = "routed"
    /\ \E rows \in NearestRows(db, TOP_K) :
          tasks' = [tasks EXCEPT ![t] =
              [tasks[t] EXCEPT
                  !.pc = "retrieved",
                  !.retrieved_chunks =
                      ChunkDicts(retrieve_async(db, rows, None), StoredDocuments),
                  !.trace = tasks[t].trace \o <<"retrieve_async", "build_context">>]]
    /\ UNCHANGED <<conversations, messages, chunkVars, retrVars, indexVars, classVars,
                   evalVars, concVars, streamVars, pureVars, convVars>>

\* The else branch: retriever.retrieve_async(question) and build_context
RetrieveChunks(t) ==
    /\ tasks[t].pc = "routed"
    /\ ~tasks[t].is_greeting
    /\ \E rows \in NearestRows(db, TOP_K) :
          tasks' = [tasks EXCEPT ![t] =
              [tasks[t] EXCEPT
                  !.pc = "retrieved",
                  !.retrieved_chunks =
                      ChunkDicts(retrieve_async(db, rows, None), StoredDocuments),
                  !.trace = tasks[t].trace \o <<"retrieve_async", "build_context">>]]
    /\ UNCHANGED <<conversations, messages, chunkVars, retrVars, indexVars, classVars,
                   evalVars, concVars, streamVars, pureVars, convVars>>

\* The chunk lists the retriever may return
RetrievableLists ==
    UNION {{ChunkDicts(retrieve_async(t, rows, None), StoredDocuments) :
               rows \in NearestRows(t, TOP_K)} : t \in StoredTables}

\* evaluate_response(answer, len(retrieved_chunks), retrieved_chunks) for each
\* answer the language model may give and each list the retriever may return,
\* computed once
Evaluated ==
    [llm_answer \in GeneratedAnswers |->
        [retrieved_chunks \in RetrievableLists |->
            evaluate_response(llm_answer, Len(retrieved_chunks),
                              Arg(retrieved_chunks))]]

\* The handler is about to call the language model
ReadyToGenerate(r) ==
    \/ r.pc = "routed" /\ r.is_greeting
    \/ r.pc = "retrieved"

\* query: groq_client.generate, evaluate_response unless greeting,
\* get_warning_message and the warning put before the answer
Generate(t) ==
    /\ tasks[t].endpoint = "query"
    /\ ReadyToGenerate(tasks[t])
    /\ \E llm_answer \in GeneratedAnswers :
          LET r == tasks[t]
              evaluator_flags ==
                  IF r.is_greeting THEN <<>>
                  ELSE Evaluated[llm_answer][r.retrieved_chunks]
              warning == get_warning_message(evaluator_flags)
          IN  tasks' = [tasks EXCEPT ![t] =
                  [r EXCEPT !.pc = "answered",
                            !.sent_history = ExtendedWith(r.history),
                            !.llm_answer = llm_answer,
                            !.terminal = "done",
                            !.evaluator_flags = evaluator_flags,
                            !.answer = WithWarning(warning, llm_answer),
                            !.trace = r.trace \o <<"generate">>
                                \o (IF r.is_greeting THEN <<>>
                                    ELSE <<"evaluate_response">>)
                                \o <<"get_warning_message">>]]
    /\ UNCHANGED <<conversations, messages, chunkVars, retrVars, indexVars, classVars,
                   evalVars, concVars, streamVars, pureVars, convVars>>

\* The metadata event of query_stream's event_generator
MetadataEvent(r) ==
    [type |-> "metadata", classification |-> r.classification,
     model_used |-> r.model_used, chunks_retrieved |-> Len(r.retrieved_chunks),
     sources |-> r.retrieved_chunks, conversation_id |-> r.conv]

\* query_stream: the metadata event, then generate_stream's tokens up to its
\* done event, at which the answer is evaluated unless greeting
StreamDone(t) ==
    /\ tasks[t].endpoint = "stream"
    /\ ReadyToGenerate(tasks[t])
    /\ \E llm_answer \in GeneratedAnswers :
          LET r == tasks[t]
          IN  tasks' = [tasks EXCEPT ![t] =
                  [r EXCEPT !.pc = "answered",
                            !.sent_history = ExtendedWith(r.history),
                            !.llm_answer = llm_answer,
                            !.terminal = "done",
                            !.evaluator_flags =
                                IF r.is_greeting THEN <<>>
                                ELSE Evaluated[llm_answer][r.retrieved_chunks],
                            !.answer = llm_answer,
                            !.response = <<MetadataEvent(r),
                                           [type |-> "token", content |-> llm_answer]>>,
                            !.trace = r.trace \o <<"generate_stream">>
                                \o (IF r.is_greeting THEN <<>>
                                    ELSE <<"evaluate_response">>)]]
    /\ UNCHANGED <<conversations, messages, chunkVars, retrVars, indexVars, classVars,
                   evalVars, concVars, streamVars, pureVars, convVars>>

\* query_stream: the API call fails, before or after a token; generate_stream
\* yields an error event, nothing is evaluated and nothing is stored
StreamError(t) ==
    /\ tasks[t].endpoint = "stream"
    /\ ReadyToGenerate(tasks[t])
    /\ \E tokens \in {<<>>, <<[type |-> "token", content |-> <<"O", "k">>]>>} :
          LET r == tasks[t]
          IN  tasks' = [tasks EXCEPT ![t] =
                  [r EXCEPT !.pc = "done",
                            !.status = 200,
                            !.sent_history = ExtendedWith(r.history),
                            !.terminal = "error",
                            !.response = <<MetadataEvent(r)>> \o tokens
                                             \o <<[type |-> "error"]>>,
                            !.trace = r.trace \o <<"generate_stream">>]]
    /\ UNCHANGED <<conversations, messages, chunkVars, retrVars, indexVars, classVars,
                   evalVars, concVars, streamVars, pureVars, convVars>>

\* crud.add_message(db, conv.id, "user", question)
SaveUser(t) ==
    /\ tasks[t].pc = "answered"
    /\ ConversationExists(tasks[t].conv)
    /\ messages' = Append(messages, Message(tasks[t].conv, "user", tasks[t].question, t))
    /\ tasks' = [tasks EXCEPT ![t] =
                    [tasks[t] EXCEPT !.pc = "saved_user",
                                     !.trace = tasks[t].trace \o <<"add_message">>]]
    /\ UNCHANGED <<conversations, chunkVars, retrVars, indexVars, classVars, evalVars, concVars, streamVars, pureVars, convVars>>

\* crud.add_message(db, conv.id, "assistant", answer), and the QueryResponse
\* or the stream's done event
SaveAssistant(t) ==
    /\ tasks[t].pc = "saved_user"
    /\ ConversationExists(tasks[t].conv)
    /\ messages' = Append(messages,
                          Message(tasks[t].conv, "assistant", tasks[t].answer, t))
    /\ LET r == tasks[t]
       IN  tasks' = [tasks EXCEPT ![t] =
               [r EXCEPT
                   !.pc = "done",
                   !.status = 200,
                   !.response =
                       IF r.endpoint = "query"
                       THEN <<[answer |-> r.answer, model_used |-> r.model_used,
                               classification |-> r.classification,
                               chunks_retrieved |-> Len(r.retrieved_chunks),
                               evaluator_flags |-> r.evaluator_flags,
                               sources |-> r.retrieved_chunks,
                               conversation_id |-> r.conv]>>
                       ELSE r.response \o <<[type |-> "done",
                                             evaluator_flags |-> r.evaluator_flags]>>,
                   !.trace = r.trace \o <<"add_message">>]]
    /\ UNCHANGED <<conversations, chunkVars, retrVars, indexVars, classVars, evalVars, concVars, streamVars, pureVars, convVars>>

\* crud.add_message for a conversation that was deleted meanwhile: the
\* insert breaks the foreign key, the handler ends with the database's error
\* and the message is not stored
SaveFails(t) ==
    /\ tasks[t].pc \in {"answered", "saved_user"}
    /\ ~ConversationExists(tasks[t].conv)
    /\ tasks' = [tasks EXCEPT ![t] =
                    [tasks[t] EXCEPT !.pc = "done",
                                     !.status = IF tasks[t].endpoint = "query" THEN 500
                                                ELSE 200,
                                     !.terminal = "IntegrityError",
                                     !.trace = tasks[t].trace \o <<"add_message">>]]
    /\ UNCHANGED <<conversations, messages, chunkVars, retrVars, indexVars, classVars,
                   evalVars, concVars, streamVars, pureVars, convVars>>

NextQuery ==
    \E t \in Tasks :
        \/ Receive(t)
        \/ Route(t)
        \/ RetrieveChunks(t)
        \/ Generate(t)
        \/ StreamDone(t)
        \/ StreamError(t)
        \/ SaveUser(t)
        \/ SaveAssistant(t)

SpecQuery == InitQuery /\ [][NextQuery]_vars

----------------------------------------------------------------------------
(* The specification of concurrent requests on one conversation: the two    *)
(* requests are of the conversation's owner and name the stored             *)
(* conversation; each handler advances from one awaited call to the next,   *)
(* and the other handler may run in between.                                *)

\* The questions that pass the validation
AcceptedQuestions == {raw \in Questions : ~EmptyQuestion(raw)}

InitSameConversation ==
    /\ conversations = <<StoredConversation>>
    /\ \E k \in {0, 1} : messages = PriorMessages(k)
    /\ tasks = [t \in Tasks |-> NoRequest]
    /\ db \in StoredTables
    /\ retr_call = NoRetrCall
    /\ ChunkIdle
    /\ IndexIdle
    /\ ClassIdle
    /\ EvalIdle
    /\ ConcIdle
    /\ StreamIdle
    /\ PureIdle
    /\ ConvIdle

\* A request arrives, whatever the other request is doing
ReceiveConcurrently(t) ==
    \E endpoint \in Endpoints, raw \in AcceptedQuestions :
        Accept(t, endpoint, "u1", raw, Arg(1))

NextSameConversation ==
    \E t \in Tasks :
        \/ ReceiveConcurrently(t)
        \/ Route(t)
        \/ RetrieveChunks(t)
        \/ Generate(t)
        \/ StreamDone(t)
        \/ StreamError(t)
        \/ SaveUser(t)
        \/ SaveAssistant(t)

SpecSameConversation == InitSameConversation /\ [][NextSameConversation]_vars

----------------------------------------------------------------------------
(* The specification of the conversation endpoints: two users send requests *)
(* to /query and /query/stream, one after the other, and at any moment one  *)
(* of them lists the conversations, reads a conversation's history, renames *)
(* or deletes a conversation.                                               *)

\* The titles a rename may ask for: an empty one, one to be stripped
TitleArgs == {<<>>, <<"x", " ">>}

\* The conversation ids a call may name: the stored one, those the requests
\* may create, one that never was
ConversationIds == 1..4

InitConversations ==
    /\ conversations = <<StoredConversation>>
    /\ messages = PriorMessages(1)
    /\ tasks = [t \in Tasks |-> NoRequest]
    /\ db = <<50000>>
    /\ retr_call = NoRetrCall
    /\ ConvIdle
    /\ ChunkIdle
    /\ IndexIdle
    /\ ClassIdle
    /\ EvalIdle
    /\ ConcIdle
    /\ StreamIdle
    /\ PureIdle

\* A request of any user arrives, with a blank question or a question
ReceiveFromAnyUser(t) ==
    /\ \A u \in Earlier(t) : tasks[u].pc = "done"
    /\ \E endpoint \in Endpoints, user \in Users, raw \in {<<" ">>, <<"w", "h", "y", "?">>},
          conversation_id \in ConversationArgs :
          Accept(t, endpoint, user, raw, conversation_id)

\* GET /conversations
ListConversations ==
    /\ conv_call = NoConvCall
    /\ \E user \in Users :
          conv_call' = [endpoint |-> "list", user |-> user, conversation_id |-> 0,
                        status |-> 200,
                        reply |-> SelectSeq(conversations, LAMBDA c : c.user_id = user)]
    /\ UNCHANGED <<conversations, messages, tasks, chunkVars, retrVars, indexVars,
                   classVars, evalVars, concVars, streamVars, pureVars>>

\* GET /conversations/{conversation_id}
GetConversationHistory ==
    /\ conv_call = NoConvCall
    /\ \E user \in Users, conversation_id \in ConversationIds :
          conv_call' =
              IF get_conversation(conversations, conversation_id, user) = {}
              THEN [endpoint |-> "history", user |-> user,
                    conversation_id |-> conversation_id, status |-> 404, reply |-> <<>>]
              ELSE [endpoint |-> "history", user |-> user,
                    conversation_id |-> conversation_id, status |-> 200,
                    reply |-> get_conversation_messages(messages, conversation_id)]
    /\ UNCHANGED <<conversations, messages, tasks, chunkVars, retrVars, indexVars,
                   classVars, evalVars, concVars, streamVars, pureVars>>

\* PUT /conversations/{conversation_id}, with crud.update_conversation
RenameConversation ==
    /\ conv_call = NoConvCall
    /\ \E user \in Users, conversation_id \in ConversationIds, title \in TitleArgs :
          LET found == get_conversation(conversations, conversation_id, user)
              call == [endpoint |-> "rename", user |-> user,
                       conversation_id |-> conversation_id, status |-> 200,
                       reply |-> <<>>]
          IN  IF title = <<>> \/ strip(title) = <<>>
              THEN /\ conv_call' = [call EXCEPT !.status = 400]
                   /\ UNCHANGED conversations
              ELSE IF found = {}
              THEN /\ conv_call' = [call EXCEPT !.status = 404]
                   /\ UNCHANGED conversations
              ELSE /\ conv_call' = [call EXCEPT !.reply = strip(title)]
                   /\ conversations' =
                          [i \in 1..Len(conversations) |->
                              IF i \in found
                              THEN [conversations[i] EXCEPT !.title = strip(title)]
                              ELSE conversations[i]]
    /\ UNCHANGED <<messages, tasks, chunkVars, retrVars, indexVars, classVars, evalVars,
                   concVars, streamVars, pureVars>>

\* DELETE /conversations/{conversation_id}, with crud.delete_conversation;
\* the conversation's messages go with it
DeleteConversation ==
    /\ conv_call = NoConvCall
    /\ \E user \in Users, conversation_id \in ConversationIds :
          LET found == get_conversation(conversations, conversation_id, user)
              call == [endpoint |-> "delete", user |-> user,
                       conversation_id |-> conversation_id, status |-> 200,
                       reply |-> <<>>]
          IN  IF found = {}
              THEN /\ conv_call' = [call EXCEPT !.status = 404]
                   /\ UNCHANGED <<conversations, messages>>
              ELSE /\ conv_call' = call
                   /\ conversations' =
                          SelectSeq(conversations, LAMBDA c : c.id # conversation_id)
                   /\ messages' =
                          SelectSeq(messages,
                                    LAMBDA m : m.conversation_id # conversation_id)
    /\ UNCHANGED <<tasks, chunkVars, retrVars, indexVars, classVars, evalVars,
                   concVars, streamVars, pureVars>>

NextConversations ==
    \/ \E t \in Tasks :
          \/ ReceiveFromAnyUser(t)
          \/ Route(t)
          \/ RetrieveChunks(t)
          \/ Generate(t)
          \/ StreamDone(t)
          \/ StreamError(t)
          \/ SaveUser(t)
          \/ SaveAssistant(t)
          \/ SaveFails(t)
    \/ ListConversations
    \/ GetConversationHistory
    \/ RenameConversation
    \/ DeleteConversation

SpecConversations == InitConversations /\ [][NextConversations]_vars

----------------------------------------------------------------------------
(* The specification of concurrent calls: over an index that was built and  *)
(* saved, two callers each call classify_query, evaluate_response,          *)
(* chunk_text or EmbeddingIndex.search; a search advances hit by hit, so    *)
(* that the callers interleave.  No build_index, load or save runs.         *)

ConcQueries == {<<"H", "i">>, <<"w", "h", "y", "?", "?">>}
ConcAnswers == {<<"O", "k">>, <<"I", " ", "c", "a", "n", "'", "t">>}
ConcTexts == {<<"a", " ", "b">>, <<"a", "\n", "\n", "b">>}

InitConc ==
    /\ \E cs \in ChunkLists :
          /\ self_chunks = cs
          /\ self_index = FlatIP(Encode(cs))
          /\ disk = [index |-> File(Encode(cs)), meta |-> File(cs)]
    /\ completed = TRUE
    /\ outcome = "save: ok"
    /\ search_call = NoSearchCall
    /\ ConcIdle
    /\ ChunkIdle
    /\ RetrIdle
    /\ ClassIdle
    /\ EvalIdle
    /\ QueryIdle
    /\ StreamIdle
    /\ PureIdle
    /\ ConvIdle

\* Another caller is inside its search
OtherSearching(k) == \E o \in Callers \ {k} : callers[o].pc = "searching"

\* classify_query(query)
ClassifyCall(k) ==
    /\ callers[k].pc = "idle"
    /\ \E q \in ConcQueries :
          callers' = [callers EXCEPT ![k] =
              [@ EXCEPT !.pc = "done", !.op = "classify_query", !.args = <<q>>,
                        !.results = classify_query(q)]]
    /\ UNCHANGED <<chunkVars, retrVars, indexVars, classVars, evalVars, queryVars, streamVars, pureVars, convVars>>

\* evaluate_response(answer, chunks_retrieved)
EvaluateCall(k) ==
    /\ callers[k].pc = "idle"
    /\ \E a \in ConcAnswers, chunks_retrieved \in ChunksRetrievedArgs :
          callers' = [callers EXCEPT ![k] =
              [@ EXCEPT !.pc = "done", !.op = "evaluate_response",
                        !.args = <<a, chunks_retrieved>>,
                        !.results = evaluate_response(a, chunks_retrieved, None)]]
    /\ UNCHANGED <<chunkVars, retrVars, indexVars, classVars, evalVars, queryVars, streamVars, pureVars, convVars>>

\* chunk_text(text, chunk_size, chunk_overlap)
ChunkCall(k) ==
    /\ callers[k].pc = "idle"
    /\ \E t \in ConcTexts, chunk_size \in {1, 2} :
          callers' = [callers EXCEPT ![k] =
              [@ EXCEPT !.pc = "done", !.op = "chunk_text",
                        !.args = <<t, chunk_size, 1>>,
                        !.results = chunk_text(t, chunk_size, 1)]]
    /\ UNCHANGED <<chunkVars, retrVars, indexVars, classVars, evalVars, queryVars, streamVars, pureVars, convVars>>

\* search(query, top_k) up to its loop: the index is there, the query is
\* embedded and self.index.search gives the hits
SearchBegin(k) ==
    /\ callers[k].pc = "idle"
    /\ self_index.built
    /\ \E top_k \in SearchTopK :
          callers' = [callers EXCEPT ![k] =
              [@ EXCEPT !.pc = "searching", !.op = "search", !.args = <<top_k>>,
                        !.hits = FaissSearch(self_index, top_k), !.n = 1,
                        !.overlapped = OtherSearching(k)]]
    /\ UNCHANGED <<chunkVars, retrVars, indexVars, classVars, evalVars, queryVars, streamVars, pureVars, convVars>>

\* A slip in the loop: the hit is taken out of self.chunks.
SearchStepConsuming(k) ==
    /\ callers[k].pc = "searching"
    /\ LET c == callers[k]
       IN  IF c.n > Len(c.hits)
           THEN /\ callers' = [callers EXCEPT ![k] = [c EXCEPT !.pc = "done"]]
                /\ UNCHANGED self_chunks
           ELSE IF c.hits[c.n].idx < Len(self_chunks) /\ c.hits[c.n].idx >= 0
           THEN /\ callers' = [callers EXCEPT ![k] =
                       [c EXCEPT !.n = c.n + 1,
                                 !.results = Append(c.results,
                                     [chunk |-> self_chunks[c.hits[c.n].idx + 1],
                                      score |-> c.hits[c.n].score])]]
                /\ self_chunks' = [i \in 1..(Len(self_chunks) - 1) |->
                                      IF i <= c.hits[c.n].idx THEN self_chunks[i]
                                      ELSE self_chunks[i + 1]]
           ELSE /\ callers' = [callers EXCEPT ![k] = [c EXCEPT !.n = c.n + 1]]
                /\ UNCHANGED self_chunks
    /\ UNCHANGED <<self_index, disk, completed, outcome, search_call, chunkVars,
                   retrVars, classVars, evalVars, queryVars, streamVars, pureVars, convVars>>

\* search: one turn of the loop over the hits, which reads self.chunks, or
\* the return after the last one
SearchStep(k) ==
    /\ callers[k].pc = "searching"
    /\ LET c == callers[k]
       IN  IF c.n > Len(c.hits)
           THEN callers' = [callers EXCEPT ![k] = [c EXCEPT !.pc = "done"]]
           ELSE IF c.hits[c.n].idx < Len(self_chunks) /\ c.hits[c.n].idx >= 0
           THEN callers' = [callers EXCEPT ![k] =
                    [c EXCEPT !.n = c.n + 1,
                              !.results = Append(c.results,
                                  [chunk |-> self_chunks[c.hits[c.n].idx + 1],
                                   score |-> c.hits[c.n].score])]]
           ELSE callers' = [callers EXCEPT ![k] = [c EXCEPT !.n = c.n + 1]]
    /\ UNCHANGED self_chunks
    /\ UNCHANGED <<self_index, disk, completed, outcome, search_call, chunkVars,
                   retrVars, classVars, evalVars, queryVars, streamVars, pureVars, convVars>>

NextConc ==
    \E k \in Callers :
        \/ ClassifyCall(k)
        \/ EvaluateCall(k)
        \/ ChunkCall(k)
        \/ SearchBegin(k)
        \/ SearchStep(k)

SpecConc == InitConc /\ [][NextConc]_vars

----------------------------------------------------------------------------
(* The specification of a streamed answer: GroqClient.generate_stream runs  *)
(* as a generator, from one yield to the next, over the chunks the API      *)
(* streams; query_stream's event_generator sends the metadata event, then   *)
(* takes each yielded event as it comes.  The request is one that is no     *)
(* greeting and retrieved no chunk, in conversation 1.                      *)

MaxStreamChunks == 3

\* x_groq.usage of a chunk that has it
Usage == [prompt_tokens |-> 7, completion_tokens |-> 2]

\* A chunk of the stream: choices[0].delta.content, that may be empty, and
\* x_groq.usage, that may be missing
StreamChunks == [content : {<<>>, <<"O", "k">>}, usage : {None, Arg(Usage)}]

RECURSIVE ChunkSeqs(_)
ChunkSeqs(n) ==
    IF n = 0 THEN {<<>>}
    ELSE ChunkSeqs(n - 1)
         \cup {Append(cs, c) : cs \in {x \in ChunkSeqs(n - 1) : Len(x) = n - 1},
                               c \in StreamChunks}

\* How the API behaves: chat.completions.create raises; the stream delivers
\* its chunks and then raises; the stream delivers its chunks and ends
ApiStreams ==
    {[outcome |-> "create raises", chunks |-> <<>>]}
    \cup [outcome : {"stream raises", "stream ends"}, chunks : ChunkSeqs(MaxStreamChunks)]

StreamQuestion == <<"w", "h", "y", "?">>

InitStream ==
    /\ api \in ApiStreams
    /\ gen = NoGenerator
    /\ sse = [NoEvents EXCEPT !.pc = "called"]
    /\ conversations = <<StoredConversation>>
    /\ messages = <<>>
    /\ tasks = [t \in Tasks |-> NoRequest]
    /\ ChunkIdle
    /\ RetrIdle
    /\ IndexIdle
    /\ ClassIdle
    /\ EvalIdle
    /\ ConcIdle
    /\ PureIdle
    /\ ConvIdle

\* generate_stream's events
TokenEvent(token) == [type |-> "token", content |-> token]
DoneEvent(tokens_input, tokens_output) ==
    [type |-> "done", tokens_input |-> tokens_input, tokens_output |-> tokens_output]
ErrorEvent == [type |-> "error"]

\* The body of event_generator's loop, for one event of generate_stream
Forwarded(s, chunk) ==
    IF chunk.type = "token"
    THEN [s EXCEPT !.full_answer = s.full_answer \o chunk.content,
                   !.events = Append(s.events, chunk)]
    ELSE IF chunk.type = "done"
    THEN [s EXCEPT !.events = Append(s.events,
              [type |-> "done", tokens_input |-> chunk.tokens_input,
               tokens_output |-> chunk.tokens_output,
               evaluator_flags |-> evaluate_response(s.full_answer, 0, Arg(<<>>))])]
    ELSE IF chunk.type = "error"
    THEN [s EXCEPT !.events = Append(s.events, chunk)]
    ELSE s

\* What the done branch stores
Saved(msgs, s, chunk) ==
    IF chunk.type = "done"
    THEN msgs \o <<Message(1, "user", StreamQuestion, "stream"),
                   Message(1, "assistant", s.full_answer, "stream")>>
    ELSE msgs

\* The generator yields the event and event_generator's loop body takes it
Yield(g, event) ==
    /\ gen' = [g EXCEPT !.yielded = Append(g.yielded, event)]
    /\ sse' = Forwarded(sse, event)
    /\ messages' = Saved(messages, sse, event)

\* event_generator up to its loop: the metadata event, and the call of
\* generate_stream, which runs nothing of its body yet
SendMetadata ==
    /\ sse.pc = "called"
    /\ sse' = [sse EXCEPT !.pc = "iterating",
                          !.events = <<[type |-> "metadata", chunks_retrieved |-> 0,
                                        conversation_id |-> 1]>>]
    /\ gen' = [gen EXCEPT !.pc = "start"]
    /\ UNCHANGED <<api, conversations, messages, tasks, chunkVars, retrVars, indexVars,
                   classVars, evalVars, concVars, pureVars, convVars>>

\* generate_stream up to its loop: chat.completions.create, and the error
\* event when it raises
CreateStream ==
    /\ gen.pc = "start"
    /\ IF api.outcome = "create raises"
       THEN Yield([gen EXCEPT !.pc = "after error"], ErrorEvent)
       ELSE gen' = [gen EXCEPT !.pc = "loop"] /\ UNCHANGED <<sse, messages>>
    /\ UNCHANGED <<api, conversations, tasks, chunkVars, retrVars, indexVars,
                   classVars, evalVars, concVars, pureVars, convVars>>

\* generate_stream: the loop takes the next chunk and yields its content as
\* a token; when the stream raises, the error event; when it ends, the done
\* event with the tokens counted
ReadChunk ==
    /\ gen.pc = "loop"
    /\ IF gen.pos < Len(api.chunks)
       THEN LET chunk == api.chunks[gen.pos + 1]
            IN  IF chunk.content # <<>>
                THEN Yield([gen EXCEPT !.pc = "usage", !.pos = gen.pos + 1,
                                       !.output_tokens = gen.output_tokens + 1],
                           TokenEvent(chunk.content))
                ELSE /\ gen' = [gen EXCEPT !.pc = "usage", !.pos = gen.pos + 1]
                     /\ UNCHANGED <<sse, messages>>
       ELSE IF api.outcome = "stream raises"
       THEN Yield([gen EXCEPT !.pc = "after error"], ErrorEvent)
       ELSE Yield([gen EXCEPT !.pc = "after done"], DoneEvent(0, gen.output_tokens))
    /\ UNCHANGED <<api, conversations, tasks, chunkVars, retrVars, indexVars,
                   classVars, evalVars, concVars, pureVars, convVars>>

\* generate_stream: the chunk's usage, if it has one, gives the done event
CheckUsage ==
    /\ gen.pc = "usage"
    /\ LET usage == api.chunks[gen.pos].usage
       IN  IF usage.given
           THEN Yield([gen EXCEPT !.pc = "after usage"],
                      DoneEvent(usage.val.prompt_tokens, usage.val.completion_tokens))
           ELSE gen' = [gen EXCEPT !.pc = "loop"] /\ UNCHANGED <<sse, messages>>
    /\ UNCHANGED <<api, conversations, tasks, chunkVars, retrVars, indexVars,
                   classVars, evalVars, concVars, pureVars, convVars>>

\* A slip after the usage's done event: no `return`, the loop goes on.
ReturnMissing ==
    /\ gen.pc \in {"after usage", "after done", "after error"}
    /\ IF gen.pc = "after usage"
       THEN gen' = [gen EXCEPT !.pc = "loop"] /\ UNCHANGED sse
       ELSE /\ gen' = [gen EXCEPT !.pc = "returned"]
            /\ sse' = [sse EXCEPT !.pc = "closed"]
    /\ UNCHANGED <<api, conversations, messages, tasks, chunkVars, retrVars, indexVars,
                   classVars, evalVars, concVars, pureVars, convVars>>

\* generate_stream resumed after its done or error event: it returns, and
\* event_generator's loop ends
Return ==
    /\ gen.pc \in {"after usage", "after done", "after error"}
    /\ gen' = [gen EXCEPT !.pc = "returned"]
    /\ sse' = [sse EXCEPT !.pc = "closed"]
    /\ UNCHANGED <<api, conversations, messages, tasks, chunkVars, retrVars, indexVars,
                   classVars, evalVars, concVars, pureVars, convVars>>

NextStream ==
    \/ SendMetadata
    \/ CreateStream
    \/ ReadChunk
    \/ CheckUsage
    \/ Return

SpecStream == InitStream /\ [][NextStream]_vars

----------------------------------------------------------------------------
(* The specification of build_context: retrieved chunks are put in a list   *)
(* one by one and build_context is applied to the list.                     *)

MaxContextChunks == 3

\* Retrieved chunks: two documents, a page of one digit and one of two, a text
\* of one paragraph and one of two
ContextChunks ==
    [document : {<<"a">>, <<"b">>}, page : {1, 12},
     text : {<<"x">>, <<"y", "\n", "\n", "z">>}]

InitContext ==
    /\ PureIdle
    /\ ChunkIdle
    /\ RetrIdle
    /\ IndexIdle
    /\ ClassIdle
    /\ EvalIdle
    /\ QueryIdle
    /\ ConcIdle
    /\ StreamIdle
    /\ ConvIdle

AddContextChunk ==
    /\ ~context_call.called
    /\ Len(context_call.chunks) < MaxContextChunks
    /\ \E c \in ContextChunks :
          context_call' = [context_call EXCEPT !.chunks = Append(@, c)]
    /\ UNCHANGED <<pages_call, chunkVars, retrVars, indexVars, classVars, evalVars,
                   queryVars, concVars, streamVars, convVars>>

BuildContext ==
    /\ ~context_call.called
    /\ context_call' = [context_call EXCEPT !.called = TRUE,
                                            !.out = build_context(context_call.chunks)]
    /\ UNCHANGED <<pages_call, chunkVars, retrVars, indexVars, classVars, evalVars,
                   queryVars, concVars, streamVars, convVars>>

NextContext == AddContextChunk \/ BuildContext

SpecContext == InitContext /\ [][NextContext]_vars

----------------------------------------------------------------------------
(* The specification of chunk_pages: pages of documents are put in a list   *)
(* one by one and chunk_pages is applied to the list.                       *)

MaxPages == 3

\* Page texts: one that is one chunk, two that are split
PageTexts == {<<"a">>, <<"a", "a", " ", "b">>, <<"a", "\n", "\n", "b", " ", "c">>}

\* The pages of two documents
PageRecords ==
    {[text |-> t, document |-> d[1], page |-> d[2]] :
        t \in PageTexts, d \in {<<"a.pdf", 1>>, <<"a.pdf", 2>>, <<"b.pdf", 1>>}}

PageChunkSizes == {1, 3}

InitPages ==
    /\ PureIdle
    /\ ChunkIdle
    /\ RetrIdle
    /\ IndexIdle
    /\ ClassIdle
    /\ EvalIdle
    /\ QueryIdle
    /\ ConcIdle
    /\ StreamIdle
    /\ ConvIdle

AddPage ==
    /\ ~pages_call.called
    /\ Len(pages_call.pages) < MaxPages
    /\ \E page \in PageRecords :
          pages_call' = [pages_call EXCEPT !.pages = Append(@, page)]
    /\ UNCHANGED <<context_call, chunkVars, retrVars, indexVars, classVars, evalVars,
                   queryVars, concVars, streamVars, convVars>>

ChunkPages ==
    /\ ~pages_call.called
    /\ \E chunk_size \in PageChunkSizes, chunk_overlap \in {1} :
          pages_call' = [pages_call EXCEPT
              !.called = TRUE, !.chunk_size = chunk_size, !.chunk_overlap = chunk_overlap,
              !.out = chunk_pages(pages_call.pages, chunk_size, chunk_overlap)]
    /\ UNCHANGED <<context_call, chunkVars, retrVars, indexVars, classVars, evalVars,
                   queryVars, concVars, streamVars, convVars>>

NextPages == AddPage \/ ChunkPages

SpecPages == InitPages /\ [][NextPages]_vars

----------------------------------------------------------------------------
(* Claims about the chunker, checked under SpecChunk *)

\* The last n characters of s, all of s when it is shorter (n >= 0).
LastChars(s, n) == SubSeq(s, Max(1, Len(s) - n + 1), Len(s))

IsOneWord(chunk) == SplitWords(chunk) = <<chunk>>

\* C1: with 0 <= overlap < size, every chunk chunk_text returns is at most
\* size characters long, unless it is exactly one word longer than size.
C1_ChunkWithinSize ==
    (chunk_call.called /\ chunk_call.chunk_overlap < chunk_call.chunk_size) =>
        \A k \in 1..Len(chunk_call.chunks) :
            \/ Len(chunk_call.chunks[k]) <= chunk_call.chunk_size
            \/ IsOneWord(chunk_call.chunks[k])

\* C2: a text no longer than size comes back as the one chunk [text],
\* unmodified, whatever the overlap.
C2_ShortTextIsOneChunk ==
    (chunk_call.called /\ Len(text) <= chunk_call.chunk_size) =>
        chunk_call.chunks = <<text>>

\* C2's case: a short text with surrounding whitespace, which any stripping
\* would modify, has been chunked.
C2_Witness ==
    /\ chunk_call.called
    /\ Len(text) <= chunk_call.chunk_size
    /\ text # <<>>
    /\ strip(text) # text

\* C3: chunk_text returns at least one chunk for every non-empty text.
C3_NonEmptyTextGivesAChunk ==
    (chunk_call.called /\ text # <<>>) => Len(chunk_call.chunks) >= 1

\* C4: chunk_text of the empty text returns no chunk, and chunk_pages emits
\* no chunk record for a page whose text is empty.
C4_EmptyTextGivesNoChunk ==
    (chunk_call.called /\ text = <<>>) =>
        /\ chunk_call.chunks = <<>>
        /\ chunk_pages(<<[text |-> text, document |-> "doc", page |-> 1]>>,
                       chunk_call.chunk_size, chunk_call.chunk_overlap) = <<>>

\* C5: at every flush, at each level, the next buffer is the last `overlap`
\* characters of the flushed buffer (all of it when shorter), a space and the
\* new unit; with overlap = 0 nothing of the flushed buffer is carried over.
C5_SeedIsLastOverlapChars ==
    chunk_call.called =>
        \A k \in 1..Len(chunk_call.flushes) :
            LET f == chunk_call.flushes[k]
            IN  f.seeded = LastChars(f.flushed, chunk_call.chunk_overlap)
                               \o <<" ">> \o f.unit

\* The part of C5 the code meets: the seed rule for every overlap >= 1.
C5_SeedWithPositiveOverlap ==
    (chunk_call.called /\ chunk_call.chunk_overlap >= 1) =>
        \A k \in 1..Len(chunk_call.flushes) :
            LET f == chunk_call.flushes[k]
            IN  f.seeded = LastChars(f.flushed, chunk_call.chunk_overlap)
                               \o <<" ">> \o f.unit

\* The whitespace-delimited words of s
WordsIn(s) == {SplitWords(s)[i] : i \in 1..Len(SplitWords(s))}

\* C24: word-level splitting never splits inside a word: every chunk of
\* _split_on_words, the one seeded with the overlap after a flush included,
\* is made of whole words of the input, so that none begins or ends with a
\* proper fragment of a word.
C24_WordChunksHoldWholeWords ==
    chunk_call.called =>
        \A k \in 1..Len(chunk_call.flushes) :
            chunk_call.flushes[k].level = "word" =>
                WordsIn(chunk_call.flushes[k].seeded) \subseteq WordsIn(text)

\* The words that stand whole in some returned chunk
WordsInChunks ==
    UNION {WordsIn(chunk_call.chunks[k]) : k \in 1..Len(chunk_call.chunks)}

\* C28: chunking loses no text: for a text longer than chunk_size and any
\* overlap, every whitespace-delimited word of the text stands whole in at
\* least one chunk chunk_text returns, whichever path handled it (paragraph
\* accumulation, flush with overlap seed, sentence splitting, word splitting).
C28_EveryWordInSomeChunk ==
    (chunk_call.called /\ Len(text) > chunk_call.chunk_size) =>
        WordsIn(text) \subseteq WordsInChunks

\* C28's case: a text of two different words, longer than chunk_size, whose
\* chunking went down to the word level and flushed there.
C28_Witness ==
    /\ chunk_call.called
    /\ Len(text) > chunk_call.chunk_size
    /\ Cardinality(WordsIn(text)) >= 2
    /\ \E k \in 1..Len(chunk_call.flushes) : chunk_call.flushes[k].level = "word"

----------------------------------------------------------------------------
(* Claims about the retriever, checked under SpecRetr *)

\* The threshold the caller asked for: the one passed, the configured default
\* when none was passed.
AskedThreshold ==
    IF retr_call.threshold.given THEN retr_call.threshold.val ELSE SIMILARITY_THRESHOLD

InOutput(c) == \E k \in 1..Len(retr_call.out) : retr_call.out[k].chunk = c

\* C6: with an explicitly passed threshold, every returned chunk's
\* relevance_score (the rounded value) is >= that threshold.
C6_ReturnedScoreAtLeastThreshold ==
    (retr_call.called /\ retr_call.threshold.given) =>
        \A k \in 1..Len(retr_call.out) :
            retr_call.out[k].relevance_score >= retr_call.threshold.val

\* C7: every chunk among the top_k nearest that is not returned has a true
\* similarity strictly below the threshold the caller passed.
C7_ExcludedBelowThreshold ==
    retr_call.called =>
        \A i \in 1..Len(retr_call.rows) :
            ~InOutput(retr_call.rows[i]) =>
                Similarity(db[retr_call.rows[i]]) < AskedThreshold

\* C8: the returned sequence is sorted by relevance_score, non-increasing.
C8_OutputSortedDescending ==
    retr_call.called =>
        \A i, j \in 1..Len(retr_call.out) :
            i < j => retr_call.out[i].relevance_score >= retr_call.out[j].relevance_score

\* C8's case: retrieve returned chunks of different scores, after dropping a
\* row below the threshold.
C8_Witness ==
    /\ retr_call.called
    /\ Len(retr_call.out) >= 2
    /\ retr_call.out[1].relevance_score > retr_call.out[2].relevance_score
    /\ Len(retr_call.rows) > Len(retr_call.out)

\* C22: every chunk retrieve returns carries a relevance_score between 0 and
\* 1, both included, whatever top_k and threshold were passed (a negative
\* threshold too) and whatever vectors are stored.
C22_ScoreInUnitInterval ==
    retr_call.called =>
        \A k \in 1..Len(retr_call.out) :
            /\ retr_call.out[k].relevance_score >= 0
            /\ retr_call.out[k].relevance_score <= One

----------------------------------------------------------------------------
(* Claims about the embedding index, checked under SpecIndex *)

\* The index directory holds no two files that disagree: when both are
\* readable, index.faiss holds the vectors of the chunks of chunks_meta.json
DirectoryAgrees ==
    (disk.index.kind = "ok" /\ disk.meta.kind = "ok") =>
        disk.index.data = Encode(disk.meta.data)

\* C27: after any build_index, load and save calls, those that fail part-way
\* included (the embedding raises in build_index, chunks_meta.json is missing
\* or malformed in load), there are as many stored vectors as stored chunk
\* records and vector i belongs to chunk i, so that search pairs no chunk with
\* another chunk's score and drops no hit.
C27_VectorsMatchChunks ==
    (DirectoryAgrees /\ self_index.built) =>
        /\ Len(self_index.vectors) = Len(self_chunks)
        /\ self_index.vectors = Encode(self_chunks)
        /\ (search_call.called /\ search_call.raised = "none") =>
              /\ Len(search_call.results) = Min(search_call.top_k, Len(self_index.vectors))
              /\ \A k \in 1..Len(search_call.results) :
                    search_call.results[k].score
                        = InnerProduct(Encode(<<search_call.results[k].chunk>>)[1])

\* C9: in every state in which no build_index or load call has completed
\* successfully, search raises the not-initialized error and returns nothing.
C9_SearchRaisesBeforeBuildOrLoad ==
    (search_call.called /\ ~search_call.completed) =>
        /\ search_call.raised = "ValueError: Index not built or loaded"
        /\ search_call.results = <<>>

\* The part of C9 the code meets: search raises whenever self.index is None.
C9_SearchRaisesOnNoIndex ==
    (search_call.called /\ ~self_index.built) =>
        /\ search_call.raised = "ValueError: Index not built or loaded"
        /\ search_call.results = <<>>

----------------------------------------------------------------------------
(* Claims about the classifier, checked under SpecClass *)

\* The query matches a greeting/farewell pattern and has at most 5 words
ShortGreeting(q) ==
    /\ IsGreeting(strip(Lower(q)))
    /\ Len(SplitWords(strip(Lower(q)))) <= 5

\* C10: a query that matches a greeting/farewell pattern and has at most 5
\* words is classified exactly {simple, MODEL_SIMPLE, ["greeting_detected"]},
\* whatever keywords, question marks or complaint words it holds: no scoring
\* signal is added.
C10_ShortGreetingIsSimple ==
    (class_call.called /\ ShortGreeting(query)) =>
        /\ class_call.classification = "simple"
        /\ class_call.model_used = MODEL_SIMPLE
        /\ class_call.signals = <<Signal("greeting_detected", 0, <<>>)>>

\* C10's case: a greeting of exactly 5 words that also holds a complaint word
\* and two question marks, which the scoring rules would make complex, has
\* been classified.
C10_Witness ==
    /\ class_call.called
    /\ ShortGreeting(query)
    /\ Len(SplitWords(query)) = 5
    /\ Found(COMPLAINT_KEYWORDS, 1, strip(Lower(query))) # <<>>
    /\ CountChar(query, "?") >= 2

\* The entries of a lexicon that occur in s
Hits(lexicon, s) == {i \in 1..Len(lexicon) : Contains(s, lexicon[i])}

\* The subordinate conjunctions that occur in s as space-delimited words
ConjunctionHits(s) ==
    {i \in 1..Len(subordinate_conjunctions) :
        Contains(<<" ">> \o s \o <<" ">>,
                 <<" ">> \o subordinate_conjunctions[i] \o <<" ">>)}

\* The total score of a query, weight by weight
TotalScore(q) ==
    LET lowered == strip(Lower(q))
        words == Len(SplitWords(lowered))
        keywords == Cardinality(Hits(COMPLEX_KEYWORDS, lowered))
    IN  (IF words >= 15 THEN 2 ELSE IF words >= 10 THEN 1 ELSE 0)
        + (IF keywords >= 2 THEN 2 ELSE IF keywords = 1 THEN 1 ELSE 0)
        + (IF CountChar(q, "?") >= 2 THEN 2 ELSE 0)
        + (IF Hits(COMPLAINT_KEYWORDS, lowered) # {} THEN 1 ELSE 0)
        + (IF Cardinality(ConjunctionHits(lowered)) >= 2 THEN 1 ELSE 0)

\* C11: a query that does not take the greeting short-circuit is classified
\* complex with MODEL_COMPLEX iff its total score is >= 2 and simple with
\* MODEL_SIMPLE otherwise, the total being +2 for >= 15 words else +1 for
\* >= 10, +1 for one complexity keyword and +2 for two or more, +2 for >= 2
\* question marks in the raw query, +1 for any complaint phrase, +1 for >= 2
\* subordinate conjunctions; the model always agrees with the label.
C11_TotalScoreDecides ==
    class_call.called =>
        /\ ~ShortGreeting(query) =>
              IF TotalScore(query) >= 2
              THEN /\ class_call.classification = "complex"
                   /\ class_call.model_used = MODEL_COMPLEX
              ELSE /\ class_call.classification = "simple"
                   /\ class_call.model_used = MODEL_SIMPLE
        /\ class_call.classification = "complex" <=> class_call.model_used = MODEL_COMPLEX
        /\ class_call.classification = "simple" <=> class_call.model_used = MODEL_SIMPLE

\* C11's case: a greeting too long for the short-circuit, whose total is
\* exactly the threshold 2, has been classified.
C11_Witness ==
    /\ class_call.called
    /\ IsGreeting(strip(Lower(query)))
    /\ ~ShortGreeting(query)
    /\ TotalScore(query) = 2

----------------------------------------------------------------------------
(* Claims about the evaluator, checked under SpecEval *)

HasFlag(f) == \E i \in 1..Len(eval_call.flags) : eval_call.flags[i] = f

\* The chunk records the call was handed: none when the list was not passed
PassedChunks ==
    IF eval_call.retrieved_chunks.given THEN eval_call.retrieved_chunks.val ELSE <<>>

\* The relevance scores of the passed records, a record without one counting
\* as 0
PassedScores ==
    {IF PassedChunks[i].has_score THEN PassedChunks[i].relevance_score ELSE 0 :
        i \in 1..Len(PassedChunks)}

PassedDocuments == {PassedChunks[i].document : i \in 1..Len(PassedChunks)}

C14_RefusalReportedWithoutChunks ==
    (/\ eval_call.called
     /\ Hits(REFUSAL_PHRASES, Lower(eval_answer)) # {}
     /\ eval_call.chunks_retrieved = 0) => HasFlag("refusal")

\* The answer holds no refusal phrase, no conflict phrase and fewer than two
\* transition words
CleanAnswer(a) ==
    /\ Hits(REFUSAL_PHRASES, Lower(a)) = {}
    /\ Hits(CONFLICT_PHRASES, Lower(a)) = {}
    /\ Cardinality(Hits(transition_words, Lower(a))) < 2

\* C15: a clean answer evaluated with chunks_retrieved = 3 and three chunk
\* records from two documents that carry no relevance_score gets no flag.
C15_CleanAnswerUnscoredChunksNoFlag ==
    (/\ eval_call.called
     /\ eval_answer # <<>>
     /\ CleanAnswer(eval_answer)
     /\ eval_call.chunks_retrieved = 3
     /\ Len(PassedChunks) = 3
     /\ Cardinality(PassedDocuments) = 2
     /\ \A i \in 1..Len(PassedChunks) : ~PassedChunks[i].has_score)
        => eval_call.flags = <<>>

\* The flags in the order they are reported in
FlagOrder == <<"no_context", "refusal", "conflicting_info">>

\* C16: conflicting_info is flagged iff the lowercased answer contains a
\* conflict phrase, or retrieved_chunks has >= 3 entries of >= 3 distinct
\* documents and the answer contains >= 2 distinct transition words, whatever
\* the other two flags are; the flags come at most once each, in the order
\* no_context, refusal, conflicting_info.
C16_ConflictingInfoFlag ==
    eval_call.called =>
        /\ HasFlag("conflicting_info") <=>
              \/ Hits(CONFLICT_PHRASES, Lower(eval_answer)) # {}
              \/ /\ Len(PassedChunks) >= 3
                 /\ Cardinality(PassedDocuments) >= 3
                 /\ Cardinality(Hits(transition_words, Lower(eval_answer))) >= 2
        /\ eval_call.flags = SelectSeq(FlagOrder, HasFlag)

\* C16's case: an answer with two transition words and no conflict phrase was
\* evaluated with three records of three documents, and conflicting_info is
\* reported after no_context.
C16_Witness ==
    /\ eval_call.called
    /\ Hits(CONFLICT_PHRASES, Lower(eval_answer)) = {}
    /\ Cardinality(PassedDocuments) = 3
    /\ eval_call.flags = <<"no_context", "conflicting_info">>

----------------------------------------------------------------------------
(* Claims about the request handlers, checked under SpecQuery *)

\* The request was handled to its end and not rejected
Finished(r) == r.pc = "done" /\ r.status = 200

\* The messages request t stored, in the order it stored them
StoredBy(t) == SelectSeq(messages, LAMBDA m : m.by = t)

IsSuffix(a, b) == Len(a) <= Len(b) /\ SubSeq(b, Len(b) - Len(a) + 1, Len(b)) = a

\* C17: get_warning_message returns the empty string iff the flag list is
\* empty; the answer POST /query returns and persists is the generator's
\* answer unchanged when the warning is empty and the warning, a blank line
\* and the unchanged answer otherwise, so the generator's answer is always a
\* suffix of it.
C17_WarningPrepended ==
    \A t \in Tasks :
        LET r == tasks[t]
            warning == get_warning_message(r.evaluator_flags)
        IN  (r.endpoint = "query" /\ Finished(r)) =>
                /\ warning = <<>> <=> r.evaluator_flags = <<>>
                /\ r.response[1].answer =
                       IF warning = <<>> THEN r.llm_answer
                       ELSE warning \o <<"\n", "\n">> \o r.llm_answer
                /\ StoredBy(t)[2].role = "assistant"
                /\ StoredBy(t)[2].content = r.response[1].answer
                /\ IsSuffix(r.llm_answer, r.response[1].answer)

\* C17's case: POST /query returned and stored an answer that two flags put a
\* warning before.
C17_Witness ==
    \E t \in Tasks :
        /\ tasks[t].endpoint = "query"
        /\ Finished(tasks[t])
        /\ Len(tasks[t].evaluator_flags) = 2
        /\ StoredBy(t)[2].content # tasks[t].llm_answer

\* The calls of a handler to the classifier, the retriever, the language
\* model and the evaluator, in the order they were made
PipelineCalls(trace) ==
    SelectSeq(trace, LAMBDA c : c \in {"classify_query", "retrieve_async",
                                       "build_context", "generate",
                                       "generate_stream", "evaluate_response"})

GenerationCall(r) == IF r.endpoint = "query" THEN "generate" ELSE "generate_stream"

\* The stream ended with generate_stream's error event
EndedInError(r) ==
    r.endpoint = "stream" /\ r.response[Len(r.response)].type = "error"

\* What the handler reported on the greeting path: no chunk, no source, and no
\* flag in the response or the done event
NothingReported(r) ==
    /\ r.response[1].chunks_retrieved = 0
    /\ r.response[1].sources = <<>>
    /\ ~EndedInError(r) => r.response[Len(r.response)].evaluator_flags = <<>>

\* C18: in every handling of a query by /query and /query/stream the
\* classifier runs before anything else in the pipeline; the retriever and the
\* evaluator are invoked iff the short-greeting short-circuit was not taken, in
\* the order retrieve, build_context, generate, evaluate; on the greeting path
\* chunks_retrieved is 0 and the sources and the flags are empty.
C18_ClassifierFirstEvaluatorIffNotGreeting ==
    \A t \in Tasks :
        LET r == tasks[t]
            calls == PipelineCalls(r.trace)
        IN  Finished(r) =>
                /\ calls # <<>> /\ calls[1] = "classify_query"
                /\ InList("retrieve_async", calls) <=> ~ShortGreeting(r.question)
                /\ InList("evaluate_response", calls) <=> ~ShortGreeting(r.question)
                /\ ~ShortGreeting(r.question) =>
                       calls = <<"classify_query", "retrieve_async", "build_context",
                                 GenerationCall(r), "evaluate_response">>
                /\ ShortGreeting(r.question) => NothingReported(r)

\* C18 as the code has it: the classifier runs before the retriever, the
\* answer's generation and the evaluator, after the title of a new
\* conversation was generated; the retriever is invoked iff the short-circuit
\* was not taken, and the evaluator iff moreover the generation ended with its
\* done event (in /query it always does), in the order retrieve,
\* build_context, generate, evaluate; on the greeting path chunks_retrieved is
\* 0 and the sources and the flags are empty.
C18_PipelineOrder ==
    \A t \in Tasks :
        LET r == tasks[t]
            greeting == ShortGreeting(r.question)
        IN  Finished(r) =>
                /\ PipelineCalls(r.trace) =
                       (IF r.conversation_id.given THEN <<>> ELSE <<"generate">>)
                       \o <<"classify_query">>
                       \o (IF greeting THEN <<>>
                           ELSE <<"retrieve_async", "build_context">>)
                       \o <<GenerationCall(r)>>
                       \o (IF ~greeting /\ ~EndedInError(r)
                           THEN <<"evaluate_response">> ELSE <<>>)
                /\ greeting => NothingReported(r)

\* C18's case: a question that is no greeting opened a new conversation on
\* /query/stream and the generation failed after retrieval.
C18_Witness ==
    \E t \in Tasks :
        /\ Finished(tasks[t])
        /\ tasks[t].endpoint = "stream"
        /\ ~tasks[t].conversation_id.given
        /\ ~ShortGreeting(tasks[t].question)
        /\ EndedInError(tasks[t])
        /\ tasks[t].response[1].chunks_retrieved = 3

\* The last n elements of a sequence, all of it when it is shorter
LastOf(seq, n) == SubSeq(seq, Max(1, Len(seq) - n + 1), Len(seq))

\* The stored messages of the request's conversation
StoredIn(r) == SelectSeq(messages, LAMBDA m : m.conversation_id = r.conv)

----------------------------------------------------------------------------
(* Claims about concurrent calls, checked under SpecConc *)

\* What the call returns when it runs alone on its arguments and the index
\* as it was built
Alone(c) ==
    IF c.op = "classify_query" THEN classify_query(c.args[1])
    ELSE IF c.op = "evaluate_response" THEN evaluate_response(c.args[1], c.args[2], None)
    ELSE IF c.op = "chunk_text" THEN chunk_text(c.args[1], c.args[2], c.args[3])
    ELSE search(FlatIP(disk.index.data), disk.meta.data, c.args[1]).results

----------------------------------------------------------------------------
(* Claims about the streamed answer, checked under SpecStream *)

Terminal(event) == event.type \in {"done", "error"}

\* The run of generate_stream met a raise of the API
ApiFailed ==
    \/ api.outcome = "create raises"
    \/ /\ api.outcome = "stream raises"
       /\ gen.pos = Len(api.chunks)
       /\ gen.pos > 0 => ~api.chunks[gen.pos].usage.given

\* C21: a run of generate_stream yields token events and then exactly one
\* terminal event, done or, when the API call fails, one error event, and
\* nothing after it; query_stream sends the metadata event before the first
\* token and the done event after the last token.
C21_StreamEndsWithOneTerminalEvent ==
    /\ \A i \in 1..Len(gen.yielded) :
          IF Terminal(gen.yielded[i]) THEN i = Len(gen.yielded)
          ELSE gen.yielded[i].type = "token"
    /\ gen.pc = "returned" =>
          /\ gen.yielded # <<>>
          /\ Terminal(gen.yielded[Len(gen.yielded)])
          /\ gen.yielded[Len(gen.yielded)].type = "error" <=> ApiFailed
    /\ sse.events # <<>> => sse.events[1].type = "metadata"
    /\ \A i \in 2..Len(sse.events) :
          /\ sse.events[i].type \in {"token", "done", "error"}
          /\ sse.events[i].type = "done" => i = Len(sse.events)

\* C21's case: two tokens, then the done event of a chunk that carries the
\* usage while the stream has a further chunk; the run returned.
C21_Witness ==
    /\ gen.pc = "returned"
    /\ Len(gen.yielded) = 3
    /\ gen.yielded[1].type = "token"
    /\ gen.yielded[2].type = "token"
    /\ gen.yielded[3] = DoneEvent(Usage.prompt_tokens, Usage.completion_tokens)
    /\ gen.pos < Len(api.chunks)
    /\ Len(sse.events) = 4

----------------------------------------------------------------------------
(* Claims about build_context, checked under SpecContext *)

\* The first line break of s from position p on; past the end if none
RECURSIVE LineEnd(_, _)
LineEnd(s, p) == IF p > Len(s) \/ s[p] = "\n" THEN p ELSE LineEnd(s, p + 1)

\* The tag that names a chunk's document and page
SourceTag(c) ==
    <<"S", "o", "u", "r", "c", "e", ":", " ">> \o c.document
        \o <<",", " ", "P", "a", "g", "e", " ">> \o str(c.page) \o <<"]">>

\* From position p on, s holds the blocks of the chunks i, i+1, ... of cs and
\* nothing else: a line with the chunk's source tag, then the chunk's text,
\* then a blank line before the next block
RECURSIVE BlocksFrom(_, _, _, _)
BlocksFrom(s, p, cs, i) ==
    LET q == LineEnd(s, p)
        after == q + 1 + Len(cs[i].text)
    IN  /\ q <= Len(s)
        /\ Contains(SubSeq(s, p, q - 1), SourceTag(cs[i]))
        /\ LitAt(s, q + 1, cs[i].text)
        /\ IF i = Len(cs) THEN after = Len(s) + 1
           ELSE /\ after <= Len(s)
                /\ LitAt(s, after, <<"\n", "\n">>)
                /\ BlocksFrom(s, after + 2, cs, i + 1)

\* C23: build_context returns the no-documentation sentence exactly when the
\* chunk list is empty; otherwise one block per chunk in the order of the
\* list, each a source tag with the chunk's document and page followed by the
\* chunk's text, blocks separated by a blank line, none dropped or repeated.
C23_OneBlockPerChunk ==
    context_call.called =>
        /\ context_call.out = NO_DOCUMENTATION <=> context_call.chunks = <<>>
        /\ context_call.chunks # <<>> =>
              BlocksFrom(context_call.out, 1, context_call.chunks, 1)

\* C23's case: three chunks of two documents, one whose text holds a blank
\* line itself, were rendered.
C23_Witness ==
    /\ context_call.called
    /\ Len(context_call.chunks) = 3
    /\ context_call.chunks[1].document # context_call.chunks[2].document
    /\ context_call.chunks[2].text = <<"y", "\n", "\n", "z">>
    /\ context_call.chunks[3].page = 12

----------------------------------------------------------------------------
(* Claims about chunk_pages, checked under SpecPages *)

\* The chunks chunk_text makes of page p of the call
ChunksOfPage(p) ==
    chunk_text(pages_call.pages[p].text, pages_call.chunk_size, pages_call.chunk_overlap)

\* How many chunks the pages before page p give
RECURSIVE ChunksBefore(_)
ChunksBefore(p) == IF p = 1 THEN 0 ELSE ChunksBefore(p - 1) + Len(ChunksOfPage(p - 1))

\* C25: chunk_pages numbers the chunks 0, 1, 2, ... over all pages of all
\* documents, with no gap and no repeat; the chunks of an earlier page come
\* before those of a later page, those of one page in the order chunk_text
\* made them, and each carries the document name and page number of its page.
C25_ChunkIdsCountUp ==
    pages_call.called =>
        /\ Len(pages_call.out) = ChunksBefore(Len(pages_call.pages) + 1)
        /\ \A i \in 1..Len(pages_call.out) : pages_call.out[i].chunk_id = i - 1
        /\ \A p \in 1..Len(pages_call.pages) :
              \A j \in 1..Len(ChunksOfPage(p)) :
                  LET c == pages_call.out[ChunksBefore(p) + j]
                  IN  /\ c.text = ChunksOfPage(p)[j]
                      /\ c.document = pages_call.pages[p].document
                      /\ c.page = pages_call.pages[p].page

\* C25's case: three pages of two documents, each split in two chunks or
\* more, were chunked.
C25_Witness ==
    /\ pages_call.called
    /\ Len(pages_call.pages) = 3
    /\ pages_call.pages[1].document # pages_call.pages[3].document
    /\ \A p \in 1..3 : Len(ChunksOfPage(p)) >= 2
    /\ Len(pages_call.out) >= 6

----------------------------------------------------------------------------
(* Further claims about the request handlers, checked under SpecQuery *)

\* The requests that created a conversation
Creators == {t \in Tasks : InList("create_conversation", tasks[t].trace)}

\* C26: a question that is empty or only whitespace is rejected with 400 by
\* /query and by /query/stream before any side effect: no conversation is
\* created, no message stored, and classifier, retriever and generator are
\* not invoked; so the retriever is never called with such a query.
C26_EmptyQuestionRejectedFirst ==
    /\ \A t \in Tasks :
          (tasks[t].pc # "idle" /\ strip(tasks[t].question) = <<>>) =>
              /\ tasks[t].pc = "done"
              /\ tasks[t].status = 400
              /\ tasks[t].trace = <<>>
              /\ tasks[t].response = <<>>
              /\ StoredBy(t) = <<>>
    /\ Len(conversations) = 1 + Cardinality(Creators)
    /\ \A t \in Tasks :
          InList("retrieve_async", tasks[t].trace) => strip(tasks[t].question) # <<>>

\* C26's case: /query rejected a blank question and /query/stream an empty
\* one, and nothing was stored.
C26_Witness ==
    /\ tasks["t1"].endpoint = "query"
    /\ tasks["t1"].question = <<" ">>
    /\ tasks["t1"].status = 400
    /\ tasks["t2"].endpoint = "stream"
    /\ tasks["t2"].question = <<>>
    /\ tasks["t2"].status = 400

----------------------------------------------------------------------------
(* Claims about concurrent requests, checked under SpecSameConversation *)

\* No request is under way
AllAnswered == \A t \in Tasks : tasks[t].pc \in {"idle", "done"}

\* msgs is made of adjacent pairs: a user message and, right after it, the
\* assistant message of the same writer
InTurns(msgs) ==
    /\ Len(msgs) % 2 = 0
    /\ \A i \in 1..Len(msgs) :
          i % 2 = 1 =>
              /\ msgs[i].role = "user"
              /\ msgs[i + 1].role = "assistant"
              /\ msgs[i + 1].by = msgs[i].by

\* C29: after any interleaving of concurrent /query and /query/stream
\* requests on one conversation, the conversation's stored messages, in the
\* order of their creation, are adjacent pairs of a request's user message and
\* the same request's assistant message, so that the window of the history,
\* two messages a turn, never splits or mispairs a turn.
C29_MessagesStoredInTurns ==
    AllAnswered => InTurns(get_conversation_messages(messages, 1))

----------------------------------------------------------------------------
(* Claims about conversation ownership, checked under SpecConversations *)

\* The conversation with this id is user's
Owns(user, conversation_id) ==
    \E i \in 1..Len(conversations) :
        conversations[i].id = conversation_id /\ conversations[i].user_id = user

\* Request t arrives in this step and names a conversation that is not its
\* user's
ArrivesForForeign(t) ==
    /\ tasks[t].pc = "idle"
    /\ tasks'[t].pc # "idle"
    /\ tasks'[t].conversation_id.given
    /\ ~Owns(tasks'[t].user, tasks'[t].conversation_id.val)

\* A request that was rejected called neither classifier, retriever nor
\* generator and stored nothing
RejectedCleanly(t) ==
    tasks[t].status \in {400, 403} =>
        /\ tasks[t].pc = "done"
        /\ tasks[t].trace \in {<<>>, <<"get_conversation">>}
        /\ tasks[t].response = <<>>
        /\ StoredBy(t) = <<>>

\* Every stored message is in a conversation of the user whose request wrote
\* it
MessagesInOwnConversations ==
    \A i \in 1..Len(messages) :
        IF messages[i].by \in Tasks
        THEN Owns(tasks[messages[i].by].user, messages[i].conversation_id)
        ELSE Owns("u1", messages[i].conversation_id)

\* The conversations, and their messages, that are not user's
OthersConversations(convs, user) == SelectSeq(convs, LAMBDA c : c.user_id # user)
OthersMessages(msgs, convs, user) ==
    SelectSeq(msgs, LAMBDA m : \E i \in 1..Len(convs) :
                                   convs[i].id = m.conversation_id /\ convs[i].user_id # user)

\* A step that is a call of a conversation endpoint changes no conversation
\* and no message of another user, and its reply shows none
CallKeepsToOwn ==
    conv_call' # conv_call =>
        /\ OthersConversations(conversations', conv_call'.user)
              = OthersConversations(conversations, conv_call'.user)
        /\ OthersMessages(messages', conversations, conv_call'.user)
              = OthersMessages(messages, conversations, conv_call'.user)
        /\ conv_call'.endpoint = "list" =>
              \A k \in 1..Len(conv_call'.reply) :
                  conv_call'.reply[k].user_id = conv_call'.user
        /\ (conv_call'.endpoint # "list" /\ conv_call'.status = 200) =>
              Owns(conv_call'.user, conv_call'.conversation_id)
        /\ (conv_call'.endpoint # "list" /\ conv_call'.status # 200) =>
              /\ conv_call'.reply = <<>>
              /\ UNCHANGED <<conversations, messages>>

\* C30 as stated: a query or stream request that names a conversation that
\* is not the authenticated user's is rejected with 403 before classification,
\* retrieval or generation and stores nothing; every stored message is in a
\* conversation of the user whose request wrote it; a user's rename, delete
\* and history reads touch and show that user's conversations only.
C30_ForeignConversationGets403 ==
    /\ [](MessagesInOwnConversations /\ \A t \in Tasks : RejectedCleanly(t))
    /\ [][/\ \A t \in Tasks : ArrivesForForeign(t) => tasks'[t].status = 403
          /\ CallKeepsToOwn]_vars

\* C30, with the validation of the question, which comes first: such a
\* request is rejected with 403, or with 400 when its question is empty or
\* blank; the rest as stated.
C30_ForeignConversationRejected ==
    /\ [](MessagesInOwnConversations /\ \A t \in Tasks : RejectedCleanly(t))
    /\ [][/\ \A t \in Tasks :
                ArrivesForForeign(t) =>
                    IF EmptyQuestion(tasks'[t].question) THEN tasks'[t].status = 400
                    ELSE tasks'[t].status = 403
          /\ CallKeepsToOwn]_vars

\* C30's case: user u2 asked a question in u1's conversation and was rejected
\* with 403, u2's delete of that conversation was answered 404, and the
\* conversation and its messages are still there.
C30_Witness ==
    /\ \E t \in Tasks :
          /\ tasks[t].user = "u2"
          /\ tasks[t].conversation_id = Arg(1)
          /\ tasks[t].status = 403
    /\ conv_call.endpoint = "delete"
    /\ conv_call.user = "u2"
    /\ conv_call.conversation_id = 1
    /\ conv_call.status = 404
    /\ Owns("u1", 1)
    /\ get_conversation_messages(messages, 1) # <<>>

====
